---- MODULE Spec2Model ----
(***************************************************************************)
(* Model of the ABL language extension (src/src/extension.ts): the         *)
(* quote-aware scanning primitives, the structural validators              *)
(* (provideIfDiagnostics, provideForDiagnostics), the declaration/use      *)
(* validator (provideUndeclaredVarDiagnostics) and the semantic token      *)
(* classifier (provideTokens).                                             *)
(*                                                                         *)
(* A line of text is a sequence of one-character strings; columns and line *)
(* numbers are 0-based as in the source.  A document is a sequence of      *)
(* lines.                                                                  *)
(***************************************************************************)
EXTENDS Integers, Sequences, FiniteSets, TLC

VARIABLES
  doc,                  \* the text document: a sequence of lines
  pc,                   \* position of the running handler / pass
  line,                 \* loop variable of provideUndeclaredVarDiagnostics
  lineToFunc,           \* result of buildFuncLineMap(doc) held by the pass
  globalDeclared,       \* Set<string> of the pass
  localDeclaredByFunc,  \* Map<number, Set<string>> of the pass
  diagnostics,          \* the pass's local diagnostics array
  varDiag,              \* diagnostic collection 'abl-vars' (for the document)
  diag,                 \* diagnostic collection 'abl' (for the document)
  tokens,               \* spans pushed to the SemanticTokensBuilder
  scan,                 \* line-local state of provideTokens' character scan
  userFunctions,        \* the module-level Set<string> userFunctions
  documents,            \* the open text documents, by uri: [languageId, text]
  diagCollection,       \* diagnostic collection 'abl', by uri
  varDiagCollection,    \* diagnostic collection 'abl-vars', by uri
  arg,                  \* the argument of the function being evaluated
  result                \* what the function under evaluation has returned

vars == <<doc, pc, line, lineToFunc, globalDeclared, localDeclaredByFunc,
          diagnostics, varDiag, diag, tokens, scan, userFunctions,
                 documents, diagCollection, varDiagCollection, arg, result>>

(***************************************************************************)
(* Characters                                                              *)
(***************************************************************************)
LowerSeq == <<"a","b","c","d","e","f","g","h","i","j","k","l","m",
              "n","o","p","q","r","s","t","u","v","w","x","y","z">>
UpperSeq == <<"A","B","C","D","E","F","G","H","I","J","K","L","M",
              "N","O","P","Q","R","S","T","U","V","W","X","Y","Z">>
LowerSet == {LowerSeq[k] : k \in DOMAIN LowerSeq}
UpperSet == {UpperSeq[k] : k \in DOMAIN UpperSeq}
DigitSet == {"0","1","2","3","4","5","6","7","8","9"}
IdentStartSet == LowerSet \cup UpperSet \cup {"_"}
IdentCharSet == IdentStartSet \cup DigitSet
WsSet == {" ", "\t"}
ToLowerMap == [c \in UpperSet |-> LowerSeq[CHOOSE k \in DOMAIN UpperSeq : UpperSeq[k] = c]]

toLowerCase(c) == IF c \in UpperSet THEN ToLowerMap[c] ELSE c

\* text[i] with a 0-based index; "" stands for JavaScript's undefined / ''
CharAt(s, i) == IF i >= 0 /\ i < Len(s) THEN s[i + 1] ELSE ""

\* s.slice(from, to) with 0-based, end-exclusive indices
Slice(s, from, to) == SubSeq(s, from + 1, to)

isIdentChar(ch) == ch \in IdentCharSet

isAttachPunct(ch) == ch \in {"(", ")", ",", "]", "|", "'", "\"", "!"}

isWordBoundary(text, start, length) ==
  /\ ~isIdentChar(CharAt(text, start - 1))
  /\ ~isIdentChar(CharAt(text, start + length))

\* s.startsWith(pat, i)
StartsWith(s, pat, i) ==
  /\ i >= 0
  /\ i + Len(pat) <= Len(s)
  /\ \A k \in 1..Len(pat) : s[i + k] = pat[k]

\* a literal of a regular expression with the i flag, matched at i
StartsWithCI(s, pat, i) ==
  /\ i >= 0
  /\ i + Len(pat) <= Len(s)
  /\ \A k \in 1..Len(pat) : toLowerCase(s[i + k]) = toLowerCase(pat[k])

\* \s* matched greedily from i: the index of the first non-blank at or after i
RECURSIVE SkipWs(_, _)
SkipWs(s, i) == IF i < Len(s) /\ s[i + 1] \in WsSet THEN SkipWs(s, i + 1) ELSE i

\* [A-Za-z0-9_]* matched greedily from i
RECURSIVE IdentEnd(_, _)
IdentEnd(s, i) == IF i < Len(s) /\ s[i + 1] \in IdentCharSet THEN IdentEnd(s, i + 1) ELSE i

\* s.trim()
RECURSIVE TrimRight(_)
TrimRight(s) == IF Len(s) > 0 /\ s[Len(s)] \in WsSet THEN TrimRight(SubSeq(s, 1, Len(s) - 1)) ELSE s
trim(s) == TrimRight(Slice(s, SkipWs(s, 0), Len(s)))

\* hay.indexOf(needle) and hay.lastIndexOf(needle); -1 when absent
Occurrences(hay, needle) == {i \in 0..Len(hay) : StartsWith(hay, needle, i)}
indexOf(hay, needle) ==
  LET occ == Occurrences(hay, needle)
  IN IF occ = {} THEN -1 ELSE CHOOSE i \in occ : \A j \in occ : i <= j
lastIndexOf(hay, needle) ==
  LET occ == Occurrences(hay, needle)
  IN IF occ = {} THEN -1 ELSE CHOOSE i \in occ : \A j \in occ : i >= j

(***************************************************************************)
(* Keywords                                                                *)
(***************************************************************************)
KwFunction == <<"@","F","u","n","c","t","i","o","n">>
KwEnd == <<"@","E","n","d">>
KwEndFunction == <<"@","E","n","d"," ","F","u","n","c","t","i","o","n">>
WordFunction == <<"F","u","n","c","t","i","o","n">>
KwString == <<"@","S","t","r","i","n","g">>
KwInt == <<"@","I","n","t">>
KwSet == <<"@","S","e","t">>
KwGetParen == <<"@","G","e","t","(">>
KwIf == <<"@","I","f">>
WordIf == <<"I","f">>
KwElse == <<"@","E","l","s","e">>
KwThen == <<"@","T","h","e","n">>
KwFor == <<"@","F","o","r">>
WordFor == <<"F","o","r">>
WordAnd == <<"A","n","d">>
WordOr == <<"O","r">>

\* /^[ \t]*#/
isCommentLine(text) == CharAt(text, SkipWs(text, 0)) = "#"
isCommentLine2(text) == CharAt(text, SkipWs(text, 0)) = "#"

\* !raw.trim()
isBlank(text) == SkipWs(text, 0) = Len(text)

\* /^\s*@<Kw>\b/i for a keyword that ends in a word character
LineStartsWithKw(text, kw) ==
  LET j == SkipWs(text, 0)
  IN StartsWithCI(text, kw, j) /\ ~isIdentChar(CharAt(text, j + Len(kw)))

\* /^\s*@<Kw1>\s+<word>\b/i
LineStartsWithKw2(text, kw, word) ==
  LET j == SkipWs(text, 0)
      k == SkipWs(text, j + Len(kw))
  IN /\ StartsWithCI(text, kw, j)
     /\ k > j + Len(kw)
     /\ StartsWithCI(text, word, k)
     /\ ~isIdentChar(CharAt(text, k + Len(word)))

fnStartRe(text) == LineStartsWithKw(text, KwFunction)
fnEndRe(text) == LineStartsWithKw2(text, KwEnd, WordFunction)

\* /^\s*@Function\s+([A-Za-z_][A-Za-z0-9_]*)\s*(?:\(|$)/i : the name, or <<>>
fnNameRe(text) ==
  LET j == SkipWs(text, 0)
      k == SkipWs(text, j + Len(KwFunction))
      e == IdentEnd(text, k)
      m == SkipWs(text, e)
  IN IF /\ StartsWithCI(text, KwFunction, j)
        /\ k > j + Len(KwFunction)
        /\ CharAt(text, k) \in IdentStartSet
        /\ (CharAt(text, m) = "(" \/ m = Len(text))
     THEN Slice(text, k, e)
     ELSE <<>>

\* /^\s*@(String|Int)\s+([A-Za-z_][A-Za-z0-9_]*)\b/i : the name, or <<>>
declRe(text) ==
  LET j == SkipWs(text, 0)
      t == IF StartsWithCI(text, KwString, j) THEN j + Len(KwString)
           ELSE IF StartsWithCI(text, KwInt, j) THEN j + Len(KwInt)
           ELSE -1
      k == SkipWs(text, t)
  IN IF t >= 0 /\ k > t /\ CharAt(text, k) \in IdentStartSet
     THEN Slice(text, k, IdentEnd(text, k))
     ELSE <<>>

\* one match of /@Set\s+([A-Za-z_][A-Za-z0-9_]*)\b/ at index i:
\* [index, whole, name, last], or [index |-> -1]
setUseAt(text, i) ==
  LET k == SkipWs(text, i + Len(KwSet))
      e == IdentEnd(text, k)
  IN IF /\ StartsWith(text, KwSet, i)
        /\ k > i + Len(KwSet)
        /\ CharAt(text, k) \in IdentStartSet
     THEN [index |-> i, whole |-> Slice(text, i, e), name |-> Slice(text, k, e), last |-> e]
     ELSE [index |-> -1]

\* one match of /@Get\(\s*([A-Za-z_][A-Za-z0-9_]*)\s*\)/ at index i
getUseAt(text, i) ==
  LET k == SkipWs(text, i + Len(KwGetParen))
      e == IdentEnd(text, k)
      c == SkipWs(text, e)
  IN IF /\ StartsWith(text, KwGetParen, i)
        /\ CharAt(text, k) \in IdentStartSet
        /\ CharAt(text, c) = ")"
     THEN [index |-> i, whole |-> Slice(text, i, c + 1), name |-> Slice(text, k, e), last |-> c + 1]
     ELSE [index |-> -1]

\* the successive results of re.exec(text) of a /g regular expression,
\* starting from lastIndex = from
RECURSIVE setUseRe(_, _)
setUseRe(text, from) ==
  IF from >= Len(text) THEN <<>>
  ELSE LET m == setUseAt(text, from)
       IN IF m.index >= 0 THEN <<m>> \o setUseRe(text, m.last)
          ELSE setUseRe(text, from + 1)

RECURSIVE getUseRe(_, _)
getUseRe(text, from) ==
  IF from >= Len(text) THEN <<>>
  ELSE LET m == getUseAt(text, from)
       IN IF m.index >= 0 THEN <<m>> \o getUseRe(text, m.last)
          ELSE getUseRe(text, from + 1)

(***************************************************************************)
(* Quote masking                                                           *)
(***************************************************************************)
\* mutant of stripSingleQuoted2: the line is matched as it is written
stripSingleQuoted2_Unmasked(ln) == ln

RECURSIVE stripSingleQuoted2From(_, _, _)
stripSingleQuoted2From(ln, i, inQ) ==
  IF i >= Len(ln) THEN <<>>
  ELSE LET ch == ln[i + 1]
           next == CharAt(ln, i + 1)
       IN IF ch = "'"
          THEN IF next = "'"
               THEN <<" ", " ">> \o stripSingleQuoted2From(ln, i + 2, inQ)
               ELSE <<" ">> \o stripSingleQuoted2From(ln, i + 1, ~inQ)
          ELSE <<IF inQ THEN " " ELSE ch>> \o stripSingleQuoted2From(ln, i + 1, inQ)

stripSingleQuoted2(ln) == stripSingleQuoted2From(ln, 0, FALSE)

(***************************************************************************)
(* buildFuncLineMap                                                        *)
(***************************************************************************)
\* mutant of buildFuncLineMapFrom: inFunc is cleared before the line is assigned
RECURSIVE buildFuncLineMapFrom_EndLineOutside(_, _, _, _)
buildFuncLineMapFrom_EndLineOutside(d, ln, funcIdx, inFunc) ==
  IF ln >= Len(d) THEN <<>>
  ELSE LET raw == d[ln + 1]
           open == inFunc /\ ~fnEndRe(raw)
       IN IF fnStartRe(raw)
          THEN <<funcIdx + 1>> \o buildFuncLineMapFrom_EndLineOutside(d, ln + 1, funcIdx + 1, TRUE)
          ELSE <<IF open THEN funcIdx ELSE -1>>
               \o buildFuncLineMapFrom_EndLineOutside(d, ln + 1, funcIdx, open)

RECURSIVE buildFuncLineMapFrom(_, _, _, _)
buildFuncLineMapFrom(d, ln, funcIdx, inFunc) ==
  IF ln >= Len(d) THEN <<>>
  ELSE LET raw == d[ln + 1]
       IN IF fnStartRe(raw)
          THEN <<funcIdx + 1>> \o buildFuncLineMapFrom(d, ln + 1, funcIdx + 1, TRUE)
          ELSE <<IF inFunc THEN funcIdx ELSE -1>>
               \o buildFuncLineMapFrom(d, ln + 1, funcIdx, inFunc /\ ~fnEndRe(raw))

\* lineToFunc as a sequence: lineToFunc[line] of the source is buildFuncLineMap(d)[line + 1]
buildFuncLineMap(d) == buildFuncLineMapFrom(d, 0, -1, FALSE)

(***************************************************************************)
(* provideUndeclaredVarDiagnostics                                         *)
(***************************************************************************)
EmptyMap == [f \in {} |-> {}]

\* a map by uri with no entry
NoEntries == [u \in {} |-> <<>>]

\* the character scan of provideTokens is not running
NoScan == [i |-> 0, stack |-> <<>>, ifMode |-> FALSE, ifParenDepth |-> 0,
           inSingleQuote |-> FALSE]

\* getLocalSet(funcId): the map after the call (an absent entry is created empty)
getLocalSet(l, funcId) == IF funcId \in DOMAIN l THEN l ELSE l @@ (funcId :> {})

\* mutant of addName: the set is overwritten instead of extended
addName_Overwrite(set, name) == {name}

\* Set.prototype.add
addName(set, name) == set \cup {name}

\* mutant of declareFunctionName: the name goes to the global set
declareFunctionName_Global(g, l, funcId, funcName) ==
  [g |-> g \cup {funcName}, l |-> l]

\* fm branch: the function's own name is declared in its local set
declareFunctionName(g, l, funcId, funcName) ==
  IF funcId # -1
  THEN [g |-> g,
        l |-> [getLocalSet(l, funcId) EXCEPT ![funcId] = addName(@, funcName)]]
  ELSE [g |-> g, l |-> l]

\* dm branch: @String / @Int declares in the global set or in the local set
declareVariable(g, l, funcId, varName) ==
  IF funcId = -1
  THEN [g |-> addName(g, varName), l |-> l]
  ELSE [g |-> g,
        l |-> [getLocalSet(l, funcId) EXCEPT ![funcId] = addName(@, varName)]]

\* mutant of allowedInThisLine: one local set shared by all functions
allowedInThisLine_AnyFunction(funcId, name, g, l) ==
  name \in g \/ \E fn \in DOMAIN l : name \in l[fn]

allowedInThisLine(funcId, name, g, l) ==
  IF funcId = -1
  THEN name \in g
  ELSE name \in getLocalSet(l, funcId)[funcId] \/ name \in g

undeclaredMessage(funcId) ==
  IF funcId = -1 THEN "NotDeclaredGlobally" ELSE "NotDeclaredInFunctionOrGlobally"

\* start column computed for an @Set match: m.index + m[0].lastIndexOf(name)
setUseStart(m) == m.index + lastIndexOf(m.whole, m.name)

\* start column computed for an @Get( match: m.index + whole.indexOf(name)
getUseStart(m) == m.index + indexOf(m.whole, m.name)

varDiagnostic(ln, funcId, name, start) ==
  [line |-> ln, start |-> start, end |-> start + Len(name),
   message |-> undeclaredMessage(funcId), name |-> name]

\* the diagnostics pushed by the two use loops of one line
RECURSIVE useDiagnostics(_, _, _, _, _, _)
useDiagnostics(ms, isSet, ln, funcId, g, l) ==
  IF ms = <<>> THEN <<>>
  ELSE LET m == Head(ms)
       IN (IF allowedInThisLine(funcId, m.name, g, l) THEN <<>>
           ELSE <<varDiagnostic(ln, funcId, m.name,
                                IF isSet THEN setUseStart(m) ELSE getUseStart(m))>>)
          \o useDiagnostics(Tail(ms), isSet, ln, funcId, g, l)

\* one iteration of the line loop: the pass's state after line ln
varLineStep(d, ltf, ln, g, l, ds) ==
  LET raw == d[ln + 1]
      funcId == ltf[ln + 1]
      text == stripSingleQuoted2(raw)
      fm == fnNameRe(text)
      dm == declRe(text)
      sets == setUseRe(text, 0)
      gets == getUseRe(text, 0)
  IN IF isBlank(raw) \/ isCommentLine2(raw) THEN [g |-> g, l |-> l, ds |-> ds]
     ELSE IF fm # <<>>
     THEN declareFunctionName(g, l, funcId, fm) @@ [ds |-> ds]
     ELSE IF dm # <<>>
     THEN declareVariable(g, l, funcId, dm) @@ [ds |-> ds]
     ELSE [g |-> g,
           l |-> IF funcId # -1 /\ (sets # <<>> \/ gets # <<>>)
                 THEN getLocalSet(l, funcId) ELSE l,
           ds |-> ds \o useDiagnostics(sets, TRUE, ln, funcId, g, l)
                     \o useDiagnostics(gets, FALSE, ln, funcId, g, l)]

RECURSIVE varWalk(_, _, _, _, _, _)
varWalk(d, ltf, ln, g, l, ds) ==
  IF ln >= Len(d) THEN ds
  ELSE LET s == varLineStep(d, ltf, ln, g, l, ds)
       IN varWalk(d, ltf, ln + 1, s.g, s.l, s.ds)

\* the list handed to varDiag.set(doc.uri, ...)
provideUndeclaredVarDiagnostics(d) ==
  varWalk(d, buildFuncLineMap(d), 0, {}, EmptyMap, <<>>)

(***************************************************************************)
(* The walk of provideUndeclaredVarDiagnostics, one line per step          *)
(***************************************************************************)
MaxVarLines == 4

LnFunctionF == KwFunction \o <<" ", "F">>
LnFunctionGp == KwFunction \o <<" ", "G", "(", "p", ")">>
LnIntG == KwInt \o <<" ", "G">>
LnSetGGetP == KwSet \o <<" ", "G", " ">> \o KwGetParen \o <<"p", ")">>
LnSetFGetG == KwSet \o <<" ", "F", " ">> \o KwGetParen \o <<"G", ")">>
LnCommentIntG == <<"#", " ">> \o LnIntG

\* the lines a document of the walk is made of
VarCatalog == {LnFunctionF, LnFunctionGp, KwEndFunction, LnIntG,
               LnSetGGetP, LnSetFGetG, LnCommentIntG}

VarDocs == UNION {[1..n -> VarCatalog] : n \in 0..MaxVarLines}

InitVar ==
  /\ doc \in VarDocs
  /\ pc = "varLoop"
  /\ line = 0
  /\ lineToFunc = buildFuncLineMap(doc)
  /\ globalDeclared = {}
  /\ localDeclaredByFunc = EmptyMap
  /\ diagnostics = <<>>
  /\ varDiag = <<>>
  /\ diag = <<>>
  /\ tokens = <<>>
  /\ scan = NoScan
  /\ userFunctions = {}
  /\ documents = NoEntries
  /\ diagCollection = NoEntries
  /\ varDiagCollection = NoEntries
  /\ arg = <<>>
  /\ result = <<>>

\* body of "for (let line = 0; line < doc.lineCount; line++)"
VarLine ==
  /\ pc = "varLoop"
  /\ line < Len(doc)
  /\ LET s == varLineStep(doc, lineToFunc, line, globalDeclared,
                          localDeclaredByFunc, diagnostics)
     IN /\ globalDeclared' = s.g
        /\ localDeclaredByFunc' = s.l
        /\ diagnostics' = s.ds
  /\ line' = line + 1
  /\ UNCHANGED <<doc, pc, lineToFunc, varDiag, diag, tokens, scan, userFunctions,
                 documents, diagCollection, varDiagCollection, arg, result>>

\* varDiag.set(doc.uri, diagnostics)
VarSet ==
  /\ pc = "varLoop"
  /\ line = Len(doc)
  /\ varDiag' = diagnostics
  /\ pc' = "done"
  /\ UNCHANGED <<doc, line, lineToFunc, globalDeclared, localDeclaredByFunc,
                 diagnostics, diag, tokens, scan, userFunctions,
                 documents, diagCollection, varDiagCollection, arg, result>>

NextVar == VarLine \/ VarSet

SpecVar == InitVar /\ [][NextVar]_vars

(***************************************************************************)
(* Quote-aware splitting (splitByAndOrTopLevel, splitCompareTopLevel)      *)
(***************************************************************************)
RECURSIVE splitByAndOrFrom(_, _, _, _, _)
splitByAndOrFrom(s, i, start, depth, inQ) ==
  IF i >= Len(s) THEN <<Slice(s, start, Len(s))>>
  ELSE LET ch == s[i + 1]
           next == CharAt(s, i + 1)
       IN IF ch = "'"
          THEN IF next = "'"
               THEN splitByAndOrFrom(s, i + 2, start, depth, inQ)
               ELSE splitByAndOrFrom(s, i + 1, start, depth, ~inQ)
          ELSE IF inQ THEN splitByAndOrFrom(s, i + 1, start, depth, inQ)
          ELSE IF ch = "(" THEN splitByAndOrFrom(s, i + 1, start, depth + 1, inQ)
          ELSE IF ch = ")"
          THEN splitByAndOrFrom(s, i + 1, start, IF depth > 0 THEN depth - 1 ELSE depth, inQ)
          ELSE IF depth # 0 THEN splitByAndOrFrom(s, i + 1, start, depth, inQ)
          ELSE IF /\ StartsWith(s, WordAnd, i)
                  /\ ~isIdentChar(CharAt(s, i - 1))
                  /\ ~isIdentChar(CharAt(s, i + 3))
          THEN <<Slice(s, start, i)>> \o splitByAndOrFrom(s, i + 3, i + 3, depth, inQ)
          ELSE IF /\ StartsWith(s, WordOr, i)
                  /\ ~isIdentChar(CharAt(s, i - 1))
                  /\ ~isIdentChar(CharAt(s, i + 2))
          THEN <<Slice(s, start, i)>> \o splitByAndOrFrom(s, i + 2, i + 2, depth, inQ)
          ELSE splitByAndOrFrom(s, i + 1, start, depth, inQ)

\* mutant of splitByAndOrTopLevel: the scan starts as if inside a literal
splitByAndOrTopLevel_QuoteInverted(s) == splitByAndOrFrom(s, 0, 0, 0, TRUE)

splitByAndOrTopLevel(s) == splitByAndOrFrom(s, 0, 0, 0, FALSE)

\* const ops = ['<>', '>=', '<=', '=', '>', '<'], tried in this order
CompareOps == << <<"<", ">">>, <<">", "=">>, <<"<", "=">>, <<"=">>, <<">">>, <<"<">> >>

\* mutant of CompareOpAt: the one-character operators are tried first
CompareOpAt_ShortestFirst(expr, i) ==
  LET hits == {k \in DOMAIN CompareOps : StartsWith(expr, CompareOps[k], i)}
  IN IF hits = {} THEN 0 ELSE CHOOSE k \in hits : \A j \in hits : k >= j

\* the first operator of CompareOps that expr starts with at i; 0 when none
CompareOpAt(expr, i) ==
  LET hits == {k \in DOMAIN CompareOps : StartsWith(expr, CompareOps[k], i)}
  IN IF hits = {} THEN 0 ELSE CHOOSE k \in hits : \A j \in hits : k <= j

NoCompare == [found |-> FALSE, left |-> <<>>, op |-> <<>>, right |-> <<>>]

RECURSIVE splitCompareFrom(_, _, _, _)
splitCompareFrom(expr, i, depth, inQ) ==
  IF i >= Len(expr) THEN NoCompare
  ELSE LET ch == expr[i + 1]
           next == CharAt(expr, i + 1)
           k == CompareOpAt(expr, i)
       IN IF ch = "'"
          THEN IF next = "'"
               THEN splitCompareFrom(expr, i + 2, depth, inQ)
               ELSE splitCompareFrom(expr, i + 1, depth, ~inQ)
          ELSE IF inQ THEN splitCompareFrom(expr, i + 1, depth, inQ)
          ELSE IF ch = "(" THEN splitCompareFrom(expr, i + 1, depth + 1, inQ)
          ELSE IF ch = ")"
          THEN splitCompareFrom(expr, i + 1, IF depth > 0 THEN depth - 1 ELSE depth, inQ)
          ELSE IF depth # 0 THEN splitCompareFrom(expr, i + 1, depth, inQ)
          ELSE IF k # 0
          THEN [found |-> TRUE,
                left |-> Slice(expr, 0, i),
                op |-> CompareOps[k],
                right |-> Slice(expr, i + Len(CompareOps[k]), Len(expr))]
          ELSE splitCompareFrom(expr, i + 1, depth, inQ)

\* the result null is the record with found = FALSE
splitCompareTopLevel(expr) == splitCompareFrom(expr, 0, 0, FALSE)

RECURSIVE stripOuterParensLoop(_)
stripOuterParensLoop(t) ==
  IF CharAt(t, 0) = "(" /\ CharAt(t, Len(t) - 1) = ")"
  THEN stripOuterParensLoop(trim(Slice(t, 1, Len(t) - 1)))
  ELSE t

stripOuterParens(s) == stripOuterParensLoop(trim(s))

isQuotedOperandOk(op) ==
  LET t == trim(stripOuterParens(op))
  IN IF CharAt(t, 0) # "'" THEN TRUE ELSE CharAt(t, Len(t) - 1) = "'"

(***************************************************************************)
(* provideIfDiagnostics, provideForDiagnostics                             *)
(***************************************************************************)
Min(a, b) == IF a <= b THEN a ELSE b

\* /@Then\b/i.test(text)
hasThenSameLine(text) ==
  \E i \in 0..Len(text) :
     StartsWithCI(text, KwThen, i) /\ ~isIdentChar(CharAt(text, i + Len(KwThen)))

\* the loop of hasThenNearNextLine for i in [i, limit)
RECURSIVE hasThenFrom(_, _, _)
hasThenFrom(d, i, limit) ==
  IF i >= limit THEN FALSE
  ELSE LET raw == d[i + 1]
       IN IF isBlank(raw) \/ isCommentLine(raw) THEN hasThenFrom(d, i + 1, limit)
          ELSE LineStartsWithKw(raw, KwThen)

\* mutant of hasThenNearNextLine: the look-ahead is not bounded
hasThenNearNextLine_Unbounded(d, fromLine) == hasThenFrom(d, fromLine + 1, Len(d))

hasThenNearNextLine(d, fromLine) ==
  hasThenFrom(d, fromLine + 1, Min(Len(d), fromLine + 3))

\* text.toLowerCase().indexOf('@then')
thenIdx(text) ==
  LET occ == {i \in 0..Len(text) : StartsWithCI(text, KwThen, i)}
  IN IF occ = {} THEN -1 ELSE CHOOSE i \in occ : \A j \in occ : i <= j

\* s.replace(/^\s*@If\b/i, '')
stripIf(s) ==
  IF LineStartsWithKw(s, KwIf)
  THEN Slice(s, SkipWs(s, 0) + Len(KwIf), Len(s))
  ELSE s

\* s.replace(/^\s*@Else\s+If\b/i, '')
stripElseIf(s) ==
  IF LineStartsWithKw2(s, KwElse, WordIf)
  THEN Slice(s, SkipWs(s, SkipWs(s, 0) + Len(KwElse)) + Len(WordIf), Len(s))
  ELSE s

\* condAll: the text before '@then' with the leading keyword removed
condAll(text) ==
  stripElseIf(stripIf(IF thenIdx(text) >= 0 THEN Slice(text, 0, thenIdx(text)) ELSE text))

\* mutant of operandsUnterminated: only the right operand is looked at
operandsUnterminated_RightOnly(left, right) == ~isQuotedOperandOk(right)

\* !isQuotedOperandOk(left) || !isQuotedOperandOk(right)
operandsUnterminated(left, right) == ~isQuotedOperandOk(left) \/ ~isQuotedOperandOk(right)

\* "for (const p of parts)": TRUE when the loop pushes its diagnostic (and breaks)
RECURSIVE partsUnterminated(_)
partsUnterminated(parts) ==
  IF parts = <<>> THEN FALSE
  ELSE LET cmp == splitCompareTopLevel(Head(parts))
       IN IF ~cmp.found THEN partsUnterminated(Tail(parts))
          ELSE IF operandsUnterminated(cmp.left, cmp.right) THEN TRUE
          ELSE partsUnterminated(Tail(parts))

\* new vscode.Diagnostic(new vscode.Range(line, 0, line, text.length), message, Error)
lineDiagnostic(d, ln, message) ==
  [line |-> ln, start |-> 0, end |-> Len(d[ln + 1]), message |-> message]

RECURSIVE leftoverDiagnostics(_, _, _)
leftoverDiagnostics(d, stack, message) ==
  IF stack = <<>> THEN <<>>
  ELSE <<lineDiagnostic(d, Head(stack), message)>> \o leftoverDiagnostics(d, Tail(stack), message)

pop(stack) == SubSeq(stack, 1, Len(stack) - 1)

\* mutant of pushesIf: @Else If opens a block of its own
pushesIf_ElseIfToo(isIf, isElseIf) == isIf \/ isElseIf

\* "if (isIf) ifStack.push(line)"
pushesIf(isIf, isElseIf) == isIf

\* one iteration of the line loop of provideIfDiagnostics
ifLineStep(d, ln, ifStack, funcStack, ds) ==
  LET text == d[ln + 1]
      isIf == LineStartsWithKw(text, KwIf)
      isElseIf == LineStartsWithKw2(text, KwElse, WordIf)
      hasThen == IF hasThenSameLine(text) THEN TRUE ELSE hasThenNearNextLine(d, ln)
      isEndIf == LineStartsWithKw2(text, KwEnd, WordIf)
      afterEndIf ==
        IF isEndIf
        THEN IF ifStack = <<>>
             THEN [ifStack |-> ifStack, ds |-> Append(ds, lineDiagnostic(d, ln, "UnmatchedEndIf"))]
             ELSE [ifStack |-> pop(ifStack), ds |-> ds]
        ELSE [ifStack |-> ifStack, ds |-> ds]
  IN IF isCommentLine(text)
     THEN [ifStack |-> ifStack, funcStack |-> funcStack, ds |-> ds]
     ELSE IF isIf \/ isElseIf
     THEN [ifStack |-> IF pushesIf(isIf, isElseIf) THEN Append(ifStack, ln) ELSE ifStack,
           funcStack |-> funcStack,
           ds |-> ds
                  \o (IF hasThen THEN <<>> ELSE <<lineDiagnostic(d, ln, "ThenMissing")>>)
                  \o (IF partsUnterminated(splitByAndOrTopLevel(condAll(text)))
                      THEN <<lineDiagnostic(d, ln, "UnterminatedString")>> ELSE <<>>)]
     ELSE IF LineStartsWithKw(text, KwFunction)
     THEN [ifStack |-> afterEndIf.ifStack, funcStack |-> Append(funcStack, ln),
           ds |-> afterEndIf.ds]
     ELSE IF LineStartsWithKw2(text, KwEnd, WordFunction)
     THEN IF funcStack = <<>>
          THEN [ifStack |-> afterEndIf.ifStack, funcStack |-> funcStack,
                ds |-> Append(afterEndIf.ds, lineDiagnostic(d, ln, "UnmatchedEndFunction"))]
          ELSE [ifStack |-> afterEndIf.ifStack, funcStack |-> pop(funcStack),
                ds |-> afterEndIf.ds]
     ELSE [ifStack |-> afterEndIf.ifStack, funcStack |-> funcStack, ds |-> afterEndIf.ds]

RECURSIVE ifWalk(_, _, _, _, _)
ifWalk(d, ln, ifStack, funcStack, ds) ==
  IF ln >= Len(d)
  THEN ds \o leftoverDiagnostics(d, ifStack, "MissingEndIf")
          \o leftoverDiagnostics(d, funcStack, "MissingEndFunction")
  ELSE LET s == ifLineStep(d, ln, ifStack, funcStack, ds)
       IN ifWalk(d, ln + 1, s.ifStack, s.funcStack, s.ds)

\* mutant of forWalk: any '@End ...' line closes the innermost open @For
RECURSIVE forWalk_ClosedByAnyEnd(_, _, _, _)
forWalk_ClosedByAnyEnd(d, ln, forStack, ds) ==
  IF ln >= Len(d) THEN ds \o leftoverDiagnostics(d, forStack, "MissingEndFor")
  ELSE LET text == d[ln + 1]
       IN IF isCommentLine(text) THEN forWalk_ClosedByAnyEnd(d, ln + 1, forStack, ds)
          ELSE IF LineStartsWithKw(text, KwFor)
          THEN forWalk_ClosedByAnyEnd(d, ln + 1, Append(forStack, ln), ds)
          ELSE IF LineStartsWithKw(text, KwEnd)
          THEN IF forStack = <<>>
               THEN forWalk_ClosedByAnyEnd(d, ln + 1, forStack,
                                           Append(ds, lineDiagnostic(d, ln, "UnmatchedEndFor")))
               ELSE forWalk_ClosedByAnyEnd(d, ln + 1, pop(forStack), ds)
          ELSE forWalk_ClosedByAnyEnd(d, ln + 1, forStack, ds)

RECURSIVE forWalk(_, _, _, _)
forWalk(d, ln, forStack, ds) ==
  IF ln >= Len(d) THEN ds \o leftoverDiagnostics(d, forStack, "MissingEndFor")
  ELSE LET text == d[ln + 1]
       IN IF isCommentLine(text) THEN forWalk(d, ln + 1, forStack, ds)
          ELSE IF LineStartsWithKw(text, KwFor)
          THEN forWalk(d, ln + 1, Append(forStack, ln), ds)
          ELSE IF LineStartsWithKw2(text, KwEnd, WordFor)
          THEN IF forStack = <<>>
               THEN forWalk(d, ln + 1, forStack,
                            Append(ds, lineDiagnostic(d, ln, "UnmatchedEndFor")))
               ELSE forWalk(d, ln + 1, pop(forStack), ds)
          ELSE forWalk(d, ln + 1, forStack, ds)

\* pushes its diagnostics onto the list of provideIfDiagnostics
provideForDiagnostics(d, ds) == forWalk(d, 0, <<>>, ds)

\* the list handed to diag.set(doc.uri, ...)
provideIfDiagnostics(d) == provideForDiagnostics(d, ifWalk(d, 0, <<>>, <<>>, <<>>))

(***************************************************************************)
(* Document events: onDidOpenTextDocument / onDidChangeTextDocument run    *)
(* provideIfDiagnostics and provideUndeclaredVarDiagnostics on the         *)
(* document, each replacing its collection's entry for the document        *)
(***************************************************************************)
\* the state right after activate() with an empty active document
InitDoc ==
  /\ doc = <<>>
  /\ pc = "idle"
  /\ line = 0
  /\ lineToFunc = <<>>
  /\ globalDeclared = {}
  /\ localDeclaredByFunc = EmptyMap
  /\ diagnostics = <<>>
  /\ varDiag = provideUndeclaredVarDiagnostics(<<>>)
  /\ diag = provideIfDiagnostics(<<>>)
  /\ tokens = <<>>
  /\ scan = NoScan
  /\ userFunctions = {}
  /\ documents = NoEntries
  /\ diagCollection = NoEntries
  /\ varDiagCollection = NoEntries
  /\ arg = <<>>
  /\ result = <<>>

\* the handler of a change event that leaves the document with text newDoc
onDidChangeTextDocument(newDoc) ==
  /\ pc = "idle"
  /\ doc' = newDoc
  /\ diag' = provideIfDiagnostics(newDoc)
  /\ varDiag' = provideUndeclaredVarDiagnostics(newDoc)
  /\ UNCHANGED <<pc, line, lineToFunc, globalDeclared, localDeclaredByFunc,
                 diagnostics, tokens, scan, userFunctions,
                 documents, diagCollection, varDiagCollection, arg, result>>

\* an edit that adds a line at the end of the document
AppendLine(catalog, maxLines) ==
  \E text \in catalog :
     /\ Len(doc) < maxLines
     /\ onDidChangeTextDocument(Append(doc, text))

\* an edit that deletes the last line of the document
DeleteLastLine ==
  /\ Len(doc) > 0
  /\ onDidChangeTextDocument(SubSeq(doc, 1, Len(doc) - 1))

\* the handler of an open event for a document whose text is already in doc
onDidOpenTextDocument ==
  /\ pc = "opening"
  /\ diag' = provideIfDiagnostics(doc)
  /\ varDiag' = provideUndeclaredVarDiagnostics(doc)
  /\ pc' = "idle"
  /\ UNCHANGED <<doc, line, lineToFunc, globalDeclared, localDeclaredByFunc,
                 diagnostics, tokens, scan, userFunctions,
                 documents, diagCollection, varDiagCollection, arg, result>>

(***************************************************************************)
(* SpecBlock: documents of block markers, edited line by line              *)
(***************************************************************************)
MaxBlockLines == 4

LnIfThen == KwIf \o <<" ", "a", " ">> \o KwThen
LnElseIfThen == KwElse \o <<" ">> \o WordIf \o <<" ", "a", " ">> \o KwThen
LnEndIf == KwEnd \o <<" ">> \o WordIf
LnEndFor == KwEnd \o <<" ">> \o WordFor

BlockCatalog == {LnIfThen, LnElseIfThen, LnEndIf, KwFor, LnEndFor,
                 LnFunctionF, KwEndFunction}

NextBlock == AppendLine(BlockCatalog, MaxBlockLines) \/ DeleteLastLine

SpecBlock == InitDoc /\ [][NextBlock]_vars

(***************************************************************************)
(* SpecThen: documents of @If lines and what may follow them               *)
(***************************************************************************)
MaxThenLines == 4

LnIfA == KwIf \o <<" ", "a">>
LnElseIfA == KwElse \o <<" ">> \o WordIf \o <<" ", "a">>
LnBlank == <<" ">>
LnComment == <<"#", "c">>
LnStatement == <<"s">>

ThenCatalog == {LnIfA, LnElseIfA, LnIfThen, KwThen, LnBlank, LnComment, LnStatement}

NextThen == AppendLine(ThenCatalog, MaxThenLines) \/ DeleteLastLine

SpecThen == InitDoc /\ [][NextThen]_vars

(***************************************************************************)
(* SpecCond: a one-line document "@If <condition> @Then" being opened      *)
(***************************************************************************)
MaxCondPieces == 5

PcQuotedThenText == <<"'", "x", "'", "y">>
PcAnd == <<" ">> \o WordAnd \o <<" ">>

CondPieces == {PcQuotedThenText, PcAnd, <<"=">>, <<"'">>, <<"(">>, <<")">>}

RECURSIVE Flatten(_)
Flatten(ps) == IF ps = <<>> THEN <<>> ELSE Head(ps) \o Flatten(Tail(ps))

CondLine(ps) == KwIf \o <<" ">> \o Flatten(ps) \o <<" ">> \o KwThen

CondDocs == {<<CondLine(ps)>> : ps \in UNION {[1..n -> CondPieces] : n \in 0..MaxCondPieces}}

InitCond ==
  /\ doc \in CondDocs
  /\ pc = "opening"
  /\ line = 0
  /\ lineToFunc = <<>>
  /\ globalDeclared = {}
  /\ localDeclaredByFunc = EmptyMap
  /\ diagnostics = <<>>
  /\ varDiag = <<>>
  /\ diag = <<>>
  /\ tokens = <<>>
  /\ scan = NoScan
  /\ userFunctions = {}
  /\ documents = NoEntries
  /\ diagCollection = NoEntries
  /\ varDiagCollection = NoEntries
  /\ arg = <<>>
  /\ result = <<>>

NextCond == onDidOpenTextDocument

SpecCond == InitCond /\ [][NextCond]_vars

(***************************************************************************)
(* SpecMask: provideUndeclaredVarDiagnostics over a one-line document with *)
(* single-quoted literals around and between @Set / @Get uses              *)
(***************************************************************************)
MaxMaskPieces == 4

PcSetG == KwSet \o <<" ", "G">>
PcGetG == KwGetParen \o <<"G", ")">>

MaskPieces == {PcSetG, PcGetG, <<"'">>, <<" ">>, <<"x">>}

MaskDocs == {<<Flatten(ps)>> : ps \in UNION {[1..n -> MaskPieces] : n \in 0..MaxMaskPieces}}

InitMask ==
  /\ doc \in MaskDocs
  /\ pc = "varLoop"
  /\ line = 0
  /\ lineToFunc = buildFuncLineMap(doc)
  /\ globalDeclared = {}
  /\ localDeclaredByFunc = EmptyMap
  /\ diagnostics = <<>>
  /\ varDiag = <<>>
  /\ diag = <<>>
  /\ tokens = <<>>
  /\ scan = NoScan
  /\ userFunctions = {}
  /\ documents = NoEntries
  /\ diagCollection = NoEntries
  /\ varDiagCollection = NoEntries
  /\ arg = <<>>
  /\ result = <<>>

SpecMask == InitMask /\ [][NextVar]_vars

(***************************************************************************)
(* Semantic tokens: provideTokens                                          *)
(***************************************************************************)
FUNCTION_META ==
  {
   [name |-> <<"G","e","t">>, kind |-> "builtin"],
   [name |-> <<"S","e","t">>, kind |-> "builtin"],
   [name |-> <<"U","p","p","e","r","C","a","s","e">>, kind |-> "builtin"],
   [name |-> <<"L","o","w","e","r","C","a","s","e">>, kind |-> "builtin"],
   [name |-> <<"S","u","b","S","t","r","i","n","g">>, kind |-> "builtin"],
   [name |-> <<"R","e","p","l","a","c","e">>, kind |-> "builtin"],
   [name |-> <<"L","e","n","g","t","h">>, kind |-> "builtin"],
   [name |-> <<"L","e","n","g","t","h","B">>, kind |-> "builtin"],
   [name |-> <<"P","o","s">>, kind |-> "builtin"],
   [name |-> <<"F","i","l","e","P","a","t","h">>, kind |-> "builtin"],
   [name |-> <<"T","r","i","m">>, kind |-> "builtin"],
   [name |-> <<"N","a","m","i","n","g">>, kind |-> "builtin"],
   [name |-> <<"S","y","s","D","a","t","e","T","i","m","e">>, kind |-> "builtin"],
   [name |-> <<"G","e","t","T","a","b","S","p","a","c","e">>, kind |-> "builtin"],
   [name |-> <<"G","e","t","S","p","a","c","e">>, kind |-> "builtin"],
   [name |-> <<"G","e","t","T","o","k","e","n","S","p","a","c","e">>, kind |-> "builtin"],
   [name |-> <<"P","r","e","s","p","a","c","e">>, kind |-> "builtin"],
   [name |-> <<"P","r","e","t","a","b">>, kind |-> "builtin"],
   [name |-> <<"S","p","a","c","e">>, kind |-> "builtin"],
   [name |-> <<"S","e","t","Q","u","e","r","y","C","l","e","a","r">>, kind |-> "builtin"],
   [name |-> <<"S","e","t","Q","u","e","r","y","A","d","d">>, kind |-> "builtin"],
   [name |-> <<"G","e","t","S","e","l","e","c","t","Q","u","e","r","y","R","e","s","u","l","t">>, kind |-> "builtin"],
   [name |-> <<"Q","u","e","r","y","E","x","e","c","u","t","i","o","n">>, kind |-> "builtin"],
   [name |-> <<"Q","u","e","r","y","R","e","s","u","l","t","T","o","M","a","p">>, kind |-> "builtin"],
   [name |-> <<"D","a","t","a">>, kind |-> "writer"],
   [name |-> <<"B","a","s","e">>, kind |-> "writer"],
   [name |-> <<"A","d","d","L","i","n","e">>, kind |-> "writer"],
   [name |-> <<"I","n","s","e","r","t","L","i","n","e">>, kind |-> "writer"],
   [name |-> <<"A","d","d","L","i","n","e","P","r","e","s","p","a","c","e">>, kind |-> "writer"],
   [name |-> <<"I","n","s","e","r","t","L","i","n","e","P","r","e","s","p","a","c","e">>, kind |-> "writer"],
   [name |-> <<"G","e","n","e","r","a","t","i","o","n","C","r","e","a","t","e","F","i","l","e">>, kind |-> "builtin"],
   [name |-> <<"T","o","b","e","_","F","i","l","e","_","P","a","t","h">>, kind |-> "builtin"],
   [name |-> <<"T","o","b","e","_","F","i","l","e","_","N","a","m","e">>, kind |-> "builtin"]
  }

WRITER_KEYWORDS == {f.name : f \in {g \in FUNCTION_META : g.kind = "writer"}}
BUILTIN_FUNCTIONS == {f.name : f \in {g \in FUNCTION_META : g.kind = "builtin"}}

AT_CONTROL_WORDS ==
  {<<"I","f">>,
   <<"T","h","e","n">>,
   <<"E","l","s","e">>,
   <<"F","o","r">>,
   <<"E","n","d">>,
   <<"B","r","e","a","k">>,
   <<"C","o","n","t","i","n","u","e">>,
   <<"F","u","n","c","t","i","o","n">>}

KwThenLen == Len(KwThen)
CaretData == <<"^","D","a","t","a">>
CaretClass == <<"^","C","l","a","s","s">>
KwMapDot == <<"@","M","a","p",".">>
WordMap == <<"M","a","p">>
MapMethods == <<<<"G","e","t">>, <<"S","e","t">>, <<"C","l","e","a","r">>>>

\* pushToken: the offset is on the line being scanned, so the position is
\* (line, column)
pushToken(toks, ln, start, length, kind) ==
  Append(toks, [line |-> ln, start |-> start, length |-> length, kind |-> kind])

\* funcNameById as a sequence: get(id) is buildFuncNameMap(d)[id + 1], <<>> when unset
RECURSIVE buildFuncNameMapFrom(_, _)
buildFuncNameMapFrom(d, ln) ==
  IF ln >= Len(d) THEN <<>>
  ELSE IF fnStartRe(d[ln + 1])
       THEN <<fnNameRe(d[ln + 1])>> \o buildFuncNameMapFrom(d, ln + 1)
       ELSE buildFuncNameMapFrom(d, ln + 1)

buildFuncNameMap(d) == buildFuncNameMapFrom(d, 0)

\* mutant of currentFuncName: the name of the last function the document
\* declares, whichever function the line is in
currentFuncName_LastDeclared(d, ltf, ln) ==
  LET names == buildFuncNameMap(d)
  IN IF names # <<>> THEN names[Len(names)] ELSE <<>>

\* funcId >= 0 ? funcNameById.get(funcId) : undefined   (<<>> is undefined)
currentFuncName(d, ltf, ln) ==
  LET funcId == ltf[ln + 1]
      names == buildFuncNameMap(d)
  IN IF funcId >= 0 /\ funcId + 1 \in DOMAIN names THEN names[funcId + 1] ELSE <<>>

\* getCallParenIndex; -1 is null
getCallParenIndex(lineText, startAt, nameLen) ==
  LET j0 == startAt + 1 + nameLen
      j1 == IF CharAt(lineText, j0) = "@" THEN j0 + 1 ELSE j0
      j2 == SkipWs(lineText, j1)
  IN IF CharAt(lineText, j2) = "(" THEN j2 ELSE -1

\* the ablReturn spans of '@Set <name>' pushed before the character scan
RECURSIVE returnSetTokens(_, _, _, _)
returnSetTokens(toks, ln, ms, name) ==
  IF ms = <<>> THEN toks
  ELSE LET m == Head(ms)
           next == IF m.name = name
                   THEN pushToken(toks, ln, m.index + lastIndexOf(m.whole, m.name),
                                  Len(m.name), "ablReturn")
                   ELSE toks
       IN returnSetTokens(next, ln, Tail(ms), name)

\* the ablReturn spans of '@Get(<name>)' pushed before the character scan
RECURSIVE returnGetTokens(_, _, _, _)
returnGetTokens(toks, ln, ms, name) ==
  IF ms = <<>> THEN toks
  ELSE LET m == Head(ms)
           next == IF m.name = name
                   THEN pushToken(toks, ln, m.index + indexOf(m.whole, m.name),
                                  Len(m.name), "ablReturn")
                   ELSE toks
       IN returnGetTokens(next, ln, Tail(ms), name)

returnTokens(toks, ln, lineText, name) ==
  IF name = <<>> THEN toks
  ELSE LET scanText == stripSingleQuoted2(lineText)
       IN returnGetTokens(returnSetTokens(toks, ln, setUseRe(scanText, 0), name),
                          ln, getUseRe(scanText, 0), name)

\* /@Function\s+([A-Za-z_][A-Za-z0-9_]*)/.exec(lineText.slice(i)): the first
\* match at or after k, as [found, full, fn]
RECURSIVE fnDeclSearch(_, _)
fnDeclSearch(lineText, k) ==
  IF k >= Len(lineText) THEN [found |-> FALSE]
  ELSE LET n == SkipWs(lineText, k + Len(KwFunction))
           e == IdentEnd(lineText, n)
       IN IF /\ StartsWith(lineText, KwFunction, k)
             /\ n > k + Len(KwFunction)
             /\ CharAt(lineText, n) \in IdentStartSet
          THEN [found |-> TRUE, full |-> Slice(lineText, k, e), fn |-> Slice(lineText, n, e)]
          ELSE fnDeclSearch(lineText, k + 1)

isFunctionDeclAt(lineText, i) ==
  StartsWith(lineText, KwFunction, i) /\ isWordBoundary(lineText, i, Len(KwFunction))

\* the names added to userFunctions by the iteration at i
declaredFunctionsAt(lineText, i) ==
  IF isFunctionDeclAt(lineText, i) /\ fnDeclSearch(lineText, i).found
  THEN {fnDeclSearch(lineText, i).fn} ELSE {}

\* @Function / @End Function at i
functionTokens(toks, ln, lineText, i) ==
  LET mm == fnDeclSearch(lineText, i)
      t0 == IF isFunctionDeclAt(lineText, i)
            THEN LET td == pushToken(toks, ln, i, Len(KwFunction), "ablFunctionDecl")
                 IN IF mm.found
                    THEN pushToken(td, ln, i + indexOf(mm.full, mm.fn), Len(mm.fn), "ablReturn")
                    ELSE td
            ELSE toks
  IN IF StartsWith(lineText, KwEndFunction, i) /\ isWordBoundary(lineText, i, Len(KwEndFunction))
     THEN pushToken(t0, ln, i, Len(KwEndFunction), "ablFunctionEnd")
     ELSE t0

\* operator highlight at i
operatorTokens(toks, ln, lineText, i) ==
  LET ch == CharAt(lineText, i)
      prev == CharAt(lineText, i - 1)
      next == CharAt(lineText, i + 1)
  IN IF ch \in {"+", "="}
     THEN IF ch = "=" /\ (prev \in {">", "<", "!", "="} \/ next = "=")
          THEN toks
          ELSE pushToken(toks, ln, i, 1, "ablLogic")
     ELSE toks

\* the index of the first ']' at or after j, or the length of the line
RECURSIVE closingBracket(_, _)
closingBracket(lineText, j) ==
  IF j < Len(lineText) /\ lineText[j + 1] # "]" THEN closingBracket(lineText, j + 1) ELSE j

\* the end of the '.name', '[...]' and '!' parts that follow index j
RECURSIVE metaTail(_, _)
metaTail(lineText, j) ==
  IF j >= Len(lineText) THEN j
  ELSE LET c == lineText[j + 1]
       IN IF c = "." THEN metaTail(lineText, IdentEnd(lineText, j + 1))
          ELSE IF c = "["
               THEN LET k == closingBracket(lineText, j + 1)
                    IN metaTail(lineText, IF k < Len(lineText) THEN k + 1 ELSE k)
          ELSE IF c = "!" THEN metaTail(lineText, j + 1)
          ELSE j

metaExtentEnd(lineText, i) == metaTail(lineText, IdentEnd(lineText, i + 1))

\* /\s+If\b/.test(lineText.slice(i + 5, i + 20))
ElseIfWindow == 20
elseIfFollows(lineText, i) ==
  LET w == Slice(lineText, i + Len(KwElse), Min(i + ElseIfWindow, Len(lineText)))
  IN \E q \in 1..Len(w) :
        /\ w[q] \in WsSet
        /\ StartsWith(w, WordIf, q)
        /\ ~isIdentChar(CharAt(w, q + Len(WordIf)))

isIfAt(lineText, i) == StartsWith(lineText, KwIf, i) /\ isWordBoundary(lineText, i, Len(KwIf))

isElseIfAt(lineText, i) ==
  /\ StartsWith(lineText, KwElse, i)
  /\ isWordBoundary(lineText, i, Len(KwElse))
  /\ elseIfFollows(lineText, i)

\* the index j the If-mode entry reaches after the keyword, blanks and an '@'
ifConditionStart(lineText, i, isIf) ==
  LET j1 == SkipWs(lineText, IF isIf THEN i + Len(KwIf) ELSE i + Len(KwElse))
      j2 == IF ~isIf /\ StartsWith(lineText, WordIf, j1) THEN j1 + Len(WordIf) ELSE j1
      j3 == SkipWs(lineText, j2)
      j4 == IF CharAt(lineText, j3) = "@" THEN j3 + 1 ELSE j3
  IN SkipWs(lineText, j4)

exitsIfMode(lineText, i, ifMode) ==
  /\ ifMode
  /\ StartsWith(lineText, KwThen, i) \/ StartsWith(lineText, KwElse, i)
  /\ isWordBoundary(lineText, i, KwThenLen)
  /\ ~(StartsWith(lineText, KwElse, i) /\ elseIfFollows(lineText, i))

\* the length of the And / Or / comparison operator at i, 0 when there is none
logicLengthAt(lineText, i) ==
  IF StartsWith(lineText, WordAnd, i) /\ isWordBoundary(lineText, i, Len(WordAnd)) THEN Len(WordAnd)
  ELSE IF StartsWith(lineText, WordOr, i) /\ isWordBoundary(lineText, i, Len(WordOr)) THEN Len(WordOr)
  ELSE IF \/ StartsWith(lineText, <<">", "=">>, i)
          \/ StartsWith(lineText, <<"<", "=">>, i)
          \/ StartsWith(lineText, <<"<", ">">>, i) THEN 2
  ELSE IF CharAt(lineText, i) \in {"=", ">", "<"} THEN 1
  ELSE 0

\* /@Map\.(Get|Set|Clear)@?/y at lastIndex = i: the new lastIndex, -1 for no match
mapName(lineText, i) ==
  LET ms == {k \in DOMAIN MapMethods : StartsWith(lineText, KwMapDot \o MapMethods[k], i)}
  IN IF ms = {} THEN -1
     ELSE LET e == i + Len(KwMapDot) + Len(MapMethods[CHOOSE k \in ms : TRUE])
          IN IF CharAt(lineText, e) = "@" THEN e + 1 ELSE e

\* the '(' of a map call whose name ends at lastIndex, -1 when there is none
mapParenIndex(lineText, lastIndex) ==
  LET j0 == SkipWs(lineText, lastIndex)
      j1 == IF CharAt(lineText, j0) = "@" THEN j0 + 1 ELSE j0
  IN IF CharAt(lineText, j1) = "(" THEN j1 ELSE -1

\* mutant of callAt: every recognised call is taken for a user function call
callAt_NoBuiltins(lineText, i) ==
  IF ~(CharAt(lineText, i) = "@" /\ CharAt(lineText, i + 1) \in IdentStartSet)
  THEN [found |-> FALSE]
  ELSE LET name == Slice(lineText, i + 1, IdentEnd(lineText, i + 1))
           afterName == CharAt(lineText, i + 1 + Len(name))
           parenIdx == getCallParenIndex(lineText, i, Len(name))
       IN IF \/ name = WordMap /\ afterName = "."
             \/ name \in AT_CONTROL_WORDS
             \/ name \in WRITER_KEYWORDS
             \/ parenIdx = -1
          THEN [found |-> FALSE]
          ELSE [found |-> TRUE, parenIdx |-> parenIdx,
                tokenLen |-> IF afterName = "@" THEN Len(name) + 2 ELSE Len(name) + 1,
                kind |-> "ablFunctionCall"]

\* the call recognised at an '@' at i: [found, parenIdx, tokenLen, kind]
callAt(lineText, i) ==
  IF ~(CharAt(lineText, i) = "@" /\ CharAt(lineText, i + 1) \in IdentStartSet)
  THEN [found |-> FALSE]
  ELSE LET name == Slice(lineText, i + 1, IdentEnd(lineText, i + 1))
           afterName == CharAt(lineText, i + 1 + Len(name))
           parenIdx == getCallParenIndex(lineText, i, Len(name))
       IN IF \/ name = WordMap /\ afterName = "."
             \/ name \in AT_CONTROL_WORDS
             \/ name \in WRITER_KEYWORDS
             \/ parenIdx = -1
          THEN [found |-> FALSE]
          ELSE [found |-> TRUE, parenIdx |-> parenIdx,
                tokenLen |-> IF afterName = "@" THEN Len(name) + 2 ELSE Len(name) + 1,
                kind |-> IF name \in BUILTIN_FUNCTIONS THEN "ablFunc" ELSE "ablFunctionCall"]

\* mutant of innerAtTokens: the inner '@' takes the kind of the outermost frame
innerAtTokens_OutermostFrame(toks, ln, lineText, i, stack) ==
  LET prev == CharAt(lineText, i - 1)
      next == CharAt(lineText, i + 1)
  IN IF /\ Len(stack) > 0
        /\ CharAt(lineText, i) = "@"
        /\ isAttachPunct(next) \/ isAttachPunct(prev) \/ isIdentChar(prev)
     THEN pushToken(toks, ln, i, 1, stack[1].kind)
     ELSE toks

\* the inner '@' at i, coloured with the kind of the innermost open frame
innerAtTokens(toks, ln, lineText, i, stack) ==
  LET prev == CharAt(lineText, i - 1)
      next == CharAt(lineText, i + 1)
  IN IF /\ Len(stack) > 0
        /\ CharAt(lineText, i) = "@"
        /\ isAttachPunct(next) \/ isAttachPunct(prev) \/ isIdentChar(prev)
     THEN pushToken(toks, ln, i, 1, stack[Len(stack)].kind)
     ELSE toks

\* depth tracking of the If-mode parentheses and of the innermost frame
trackDepth(st, ch) ==
  LET d == st.ifParenDepth
      d1 == IF d > 0 /\ ch = "(" THEN d + 1
            ELSE IF d > 0 /\ ch = ")" THEN d - 1
            ELSE d
      m1 == IF d > 0 /\ ch = ")" /\ d1 = 0 THEN FALSE ELSE st.ifMode
      n == Len(st.stack)
      s1 == IF n > 0 /\ ch = "("
            THEN [st.stack EXCEPT ![n].depth = @ + 1]
            ELSE IF n > 0 /\ ch = ")"
                 THEN IF st.stack[n].depth - 1 = 0
                      THEN SubSeq(st.stack, 1, n - 1)
                      ELSE [st.stack EXCEPT ![n].depth = @ - 1]
                 ELSE st.stack
  IN [st EXCEPT !.ifParenDepth = d1, !.ifMode = m1, !.stack = s1]

\* one iteration of the character loop at index st.i, the loop's i++
\* included: the scanner state and the pushed spans after it
scanStep(lineText, ln, st, toks) ==
  LET i == st.i
      ch == CharAt(lineText, i)
      resume(j, s, tk) == [scan |-> [s EXCEPT !.i = j + 1], toks |-> tk]
      t1 == functionTokens(toks, ln, lineText, i)
      t2 == operatorTokens(t1, ln, lineText, i)
      isIf == isIfAt(lineText, i)
      isElseIf == isElseIfAt(lineText, i)
      j == ifConditionStart(lineText, i, isIf)
      n == logicLengthAt(lineText, i)
      mapEnd == mapName(lineText, i)
      mapParen == mapParenIndex(lineText, mapEnd)
      call == callAt(lineText, i)
  IN IF ch = "^" /\ StartsWith(lineText, CaretData, i)
     THEN resume(i, st, pushToken(t1, ln, i, Len(CaretData), "ablData"))
     ELSE IF ch = "^" /\ StartsWith(lineText, CaretClass, i)
     THEN resume(i, st, pushToken(t1, ln, i, Len(CaretClass), "ablData"))
     ELSE IF st.inSingleQuote
     THEN resume(i, st, t1)
     ELSE IF ch = "^" /\ (StartsWith(lineText, CaretData, i) \/ StartsWith(lineText, CaretClass, i))
     THEN resume(metaExtentEnd(lineText, i) - 1, st,
                 pushToken(t2, ln, i, metaExtentEnd(lineText, i) - i, "ablFunc"))
     ELSE IF isIf \/ isElseIf
     THEN IF CharAt(lineText, j) = "("
          THEN resume(j, [st EXCEPT !.ifMode = TRUE, !.ifParenDepth = 1], t2)
          ELSE resume(i, [st EXCEPT !.ifMode = TRUE, !.ifParenDepth = 0], t2)
     ELSE IF exitsIfMode(lineText, i, st.ifMode)
     THEN resume(i, [st EXCEPT !.ifMode = FALSE, !.ifParenDepth = 0], t2)
     ELSE IF (st.ifMode \/ st.ifParenDepth > 0) /\ n > 0
     THEN resume(i + n - 1, st, pushToken(t2, ln, i, n, "ablLogic"))
     ELSE IF mapEnd # -1 /\ mapParen # -1
     THEN resume(mapParen,
                 [st EXCEPT !.stack = Append(@, [kind |-> "ablMap", depth |-> 1])],
                 pushToken(t2, ln, i, mapEnd - i, "ablMap"))
     ELSE IF call.found
     THEN resume(call.parenIdx,
                 [st EXCEPT !.stack = Append(@, [kind |-> call.kind, depth |-> 1])],
                 pushToken(t2, ln, i, call.tokenLen, call.kind))
     ELSE resume(i, trackDepth(st, ch), innerAtTokens(t2, ln, lineText, i, st.stack))

\* the whole character loop of a line, from state st
RECURSIVE scanLine(_, _, _, _)
scanLine(lineText, ln, st, toks) ==
  IF st.i >= Len(lineText) THEN toks
  ELSE LET r == scanStep(lineText, ln, st, toks)
       IN scanLine(lineText, ln, r.scan, r.toks)

\* the body of the line loop for lines ln.. of d
RECURSIVE tokenWalk(_, _, _, _)
tokenWalk(d, ltf, ln, toks) ==
  IF ln >= Len(d) THEN toks
  ELSE tokenWalk(d, ltf, ln + 1,
                 scanLine(d[ln + 1], ln, NoScan,
                          returnTokens(toks, ln, d[ln + 1], currentFuncName(d, ltf, ln))))

provideTokens(d) == tokenWalk(d, buildFuncLineMap(d), 0, <<>>)

(***************************************************************************)
(* SpecTok: provideTokens run over a document, one loop iteration a step   *)
(***************************************************************************)
MaxTokLines == 2

LnFunctionG == KwFunction \o <<" ", "G">>
LnIfEq == KwIf \o <<" ", "a", "=", "b", " ">> \o KwThen
LnElseIfParen == KwElse \o <<" ">> \o WordIf \o <<" ", "(", "a", "<", ">", "b", ")">>
LnMapGet == KwMapDot \o <<"G","e","t","@","(","K","@",")">>
LnDataPath == CaretData \o <<".", "a", "[", "1", "]", "!">>
LnCallQuoted == <<"@","U","(","'","@","V","(","'",")","+","1">>
LnNestedCalls == <<"@","G","e","t","(","@","G","(","a","@",")","@",")">>
LnIfInCall == <<"@","U","(">> \o KwIf \o <<" ","(","a",")","b",")">>

TokCatalog == {LnFunctionF, LnFunctionG, KwEndFunction, LnSetFGetG, LnIfEq,
               LnElseIfParen, LnMapGet, LnDataPath, LnCallQuoted, LnNestedCalls,
               LnIfInCall}

TokDocs == UNION {[1..n -> TokCatalog] : n \in 0..MaxTokLines}

\* provideTokens is entered for a document: clear(), the two maps, line = 0
InitTok ==
  /\ doc \in TokDocs
  /\ pc = "tokLine"
  /\ line = 0
  /\ lineToFunc = buildFuncLineMap(doc)
  /\ globalDeclared = {}
  /\ localDeclaredByFunc = EmptyMap
  /\ diagnostics = <<>>
  /\ varDiag = <<>>
  /\ diag = <<>>
  /\ tokens = <<>>
  /\ scan = NoScan
  /\ userFunctions = {}
  /\ documents = NoEntries
  /\ diagCollection = NoEntries
  /\ varDiagCollection = NoEntries
  /\ arg = <<>>
  /\ result = <<>>

\* the top of the line loop's body: the ablReturn spans, then fresh scanner state
TokLineStart ==
  /\ pc = "tokLine"
  /\ line < Len(doc)
  /\ tokens' = returnTokens(tokens, line, doc[line + 1], currentFuncName(doc, lineToFunc, line))
  /\ scan' = NoScan
  /\ pc' = "tokChar"
  /\ UNCHANGED <<doc, line, lineToFunc, globalDeclared, localDeclaredByFunc,
                 diagnostics, varDiag, diag, userFunctions,
                 documents, diagCollection, varDiagCollection, arg, result>>

\* one iteration of the character loop
TokChar ==
  /\ pc = "tokChar"
  /\ scan.i < Len(doc[line + 1])
  /\ LET r == scanStep(doc[line + 1], line, scan, tokens)
     IN /\ scan' = r.scan
        /\ tokens' = r.toks
  /\ userFunctions' = userFunctions \cup declaredFunctionsAt(doc[line + 1], scan.i)
  /\ UNCHANGED <<doc, pc, line, lineToFunc, globalDeclared, localDeclaredByFunc,
                 diagnostics, varDiag, diag,
                 documents, diagCollection, varDiagCollection, arg, result>>

\* the character loop ends: line++
TokLineEnd ==
  /\ pc = "tokChar"
  /\ scan.i >= Len(doc[line + 1])
  /\ line' = line + 1
  /\ pc' = "tokLine"
  /\ UNCHANGED <<doc, lineToFunc, globalDeclared, localDeclaredByFunc,
                 diagnostics, varDiag, diag, tokens, scan, userFunctions,
                 documents, diagCollection, varDiagCollection, arg, result>>

\* the line loop ends: builder.build()
TokBuild ==
  /\ pc = "tokLine"
  /\ line >= Len(doc)
  /\ pc' = "done"
  /\ UNCHANGED <<doc, line, lineToFunc, globalDeclared, localDeclaredByFunc,
                 diagnostics, varDiag, diag, tokens, scan, userFunctions,
                 documents, diagCollection, varDiagCollection, arg, result>>

NextTok == TokLineStart \/ TokChar \/ TokLineEnd \/ TokBuild

SpecTok == InitTok /\ [][NextTok]_vars

(***************************************************************************)
(* SpecDocs: open and change events on several documents; each handler     *)
(* runs provideIfDiagnostics and provideUndeclaredVarDiagnostics, which    *)
(* return at once for a document that is not 'abl' and otherwise end with  *)
(* diag.set(doc.uri, ...) / varDiag.set(doc.uri, ...)                      *)
(***************************************************************************)
MaxDocLines == 2

Uris == {"A", "B"}
LanguageIds == {"abl", "plaintext"}
DocCatalog == {LnIfA, LnEndIf, LnSetFGetG}
DocTexts == UNION {[1..n -> DocCatalog] : n \in 0..MaxDocLines}

\* mutant of collectionSet: the new list is added to the one stored for the uri
collectionSet_Merge(coll, uri, ds) ==
  [u \in DOMAIN coll \cup {uri} |->
     IF u = uri THEN (IF uri \in DOMAIN coll THEN coll[uri] ELSE <<>>) \o ds ELSE coll[u]]

\* mutant of collectionSet: the new list is stored for every uri of the collection
collectionSet_EveryUri(coll, uri, ds) == [u \in DOMAIN coll \cup {uri} |-> ds]

\* DiagnosticCollection.set(uri, diagnostics)
collectionSet(coll, uri, ds) ==
  [u \in DOMAIN coll \cup {uri} |-> IF u = uri THEN ds ELSE coll[u]]

\* provideIfDiagnostics(doc) as a step on the collection 'abl'
setIfDiagnostics(coll, uri, document) ==
  IF document.languageId # "abl" THEN coll
  ELSE collectionSet(coll, uri, provideIfDiagnostics(document.text))

\* provideUndeclaredVarDiagnostics(doc) as a step on the collection 'abl-vars'
setUndeclaredVarDiagnostics(coll, uri, document) ==
  IF document.languageId # "abl" THEN coll
  ELSE collectionSet(coll, uri, provideUndeclaredVarDiagnostics(document.text))

\* the body shared by the two event handlers, for the document now at uri
diagnosticsEvent(uri, document) ==
  /\ pc = "idle"
  /\ documents' = [u \in DOMAIN documents \cup {uri} |->
                     IF u = uri THEN document ELSE documents[u]]
  /\ diagCollection' = setIfDiagnostics(diagCollection, uri, document)
  /\ varDiagCollection' = setUndeclaredVarDiagnostics(varDiagCollection, uri, document)
  /\ UNCHANGED <<doc, pc, line, lineToFunc, globalDeclared, localDeclaredByFunc,
                 diagnostics, varDiag, diag, tokens, scan, userFunctions,
                 arg, result>>

\* the texts one edit away: a line added at the end, or the last line deleted
EditsOf(text) ==
  {Append(text, l) : l \in {k \in DocCatalog : Len(text) < MaxDocLines}}
    \cup {SubSeq(text, 1, Len(text) - 1) : x \in {y \in {0} : Len(text) > 0}}

\* nothing is open right after activate()
InitDocs ==
  /\ doc = <<>>
  /\ pc = "idle"
  /\ line = 0
  /\ lineToFunc = <<>>
  /\ globalDeclared = {}
  /\ localDeclaredByFunc = EmptyMap
  /\ diagnostics = <<>>
  /\ varDiag = <<>>
  /\ diag = <<>>
  /\ tokens = <<>>
  /\ scan = NoScan
  /\ userFunctions = {}
  /\ documents = NoEntries
  /\ diagCollection = NoEntries
  /\ varDiagCollection = NoEntries
  /\ arg = <<>>
  /\ result = <<>>

\* onDidOpenTextDocument for a document that was not open
OpenDocument ==
  \E uri \in Uris \ DOMAIN documents, languageId \in LanguageIds, text \in DocTexts :
     diagnosticsEvent(uri, [languageId |-> languageId, text |-> text])

\* onDidChangeTextDocument for an open document
ChangeDocument ==
  \E uri \in DOMAIN documents :
     \E text \in EditsOf(documents[uri].text) :
        diagnosticsEvent(uri, [documents[uri] EXCEPT !.text = text])

NextDocs == OpenDocument \/ ChangeDocument

SpecDocs == InitDocs /\ [][NextDocs]_vars

(***************************************************************************)
(* Properties of the structural validators                                 *)
(***************************************************************************)
MaxOf(S) == CHOOSE i \in S : \A j \in S : i >= j
SeqRange(sq) == {sq[k] : k \in DOMAIN sq}
LinesOf(d) == 0..(Len(d) - 1)

BlockKinds == {"If", "For", "Function"}
UnmatchedEndMessage == [If |-> "UnmatchedEndIf", For |-> "UnmatchedEndFor",
                        Function |-> "UnmatchedEndFunction"]
MissingEndMessage == [If |-> "MissingEndIf", For |-> "MissingEndFor",
                      Function |-> "MissingEndFunction"]
StartKeyword == [If |-> KwIf, For |-> KwFor, Function |-> KwFunction]
EndWord == [If |-> WordIf, For |-> WordFor, Function |-> WordFunction]

IsStartMarker(kind, text) == ~isCommentLine(text) /\ LineStartsWithKw(text, StartKeyword[kind])
IsEndMarker(kind, text) == ~isCommentLine(text) /\ LineStartsWithKw2(text, KwEnd, EndWord[kind])

\* bracket matching: Heights(d, kind, n)[k + 1] is the number of blocks of a
\* kind open before line k, for k in 0..n
RECURSIVE Heights(_, _, _)
Heights(d, kind, n) ==
  IF n = 0 THEN <<0>>
  ELSE LET prev == Heights(d, kind, n - 1)
           h == prev[n]
       IN Append(prev, IF IsStartMarker(kind, d[n]) THEN h + 1
                       ELSE IF IsEndMarker(kind, d[n]) /\ h > 0 THEN h - 1
                       ELSE h)

UnmatchedEnds(d, kind) ==
  LET hs == Heights(d, kind, Len(d))
  IN {L \in LinesOf(d) : IsEndMarker(kind, d[L + 1]) /\ hs[L + 1] = 0}

\* a start marker is left open when the height never comes back to its level
UnmatchedStarts(d, kind) ==
  LET hs == Heights(d, kind, Len(d))
  IN {L \in LinesOf(d) :
        /\ IsStartMarker(kind, d[L + 1])
        /\ \A k \in (L + 1)..Len(d) : hs[k + 1] > hs[L + 1]}

\* balanced markers: no prefix has more ends than starts, and as many of each
Balanced(d, kind) ==
  LET starts(k) == Cardinality({L \in 0..(k - 1) : IsStartMarker(kind, d[L + 1])})
      ends(k) == Cardinality({L \in 0..(k - 1) : IsEndMarker(kind, d[L + 1])})
  IN /\ \A k \in 0..Len(d) : starts(k) >= ends(k)
     /\ starts(Len(d)) = ends(Len(d))

DiagCount(ds, L, message) ==
  Cardinality({k \in DOMAIN ds : ds[k].line = L /\ ds[k].message = message})

BlockDiagCount(ds, kind) ==
  Cardinality({k \in DOMAIN ds :
                 ds[k].message \in {UnmatchedEndMessage[kind], MissingEndMessage[kind]}})

\* C2: for each block kind, exactly one "unmatched end" diagnostic on every
\* end marker met with no block open and exactly one "missing end" diagnostic
\* on every start marker still open at the end of the document; the number
\* of block diagnostics of a kind is the imbalance, and is zero exactly when
\* the kind's markers are balanced.
C2_BlockBalance ==
  \A kind \in BlockKinds :
     LET ends == UnmatchedEnds(doc, kind)
         starts == UnmatchedStarts(doc, kind)
         count == BlockDiagCount(diag, kind)
     IN /\ \A L \in LinesOf(doc) :
              /\ DiagCount(diag, L, UnmatchedEndMessage[kind])
                   = IF L \in ends THEN 1 ELSE 0
              /\ DiagCount(diag, L, MissingEndMessage[kind])
                   = IF L \in starts THEN 1 ELSE 0
        /\ count = Cardinality(ends) + Cardinality(starts)
        /\ (count = 0) <=> Balanced(doc, kind)

\* one kind has a matched pair, an unmatched end and a start left open
C2_Witness ==
  \E kind \in BlockKinds :
     /\ UnmatchedEnds(doc, kind) # {}
     /\ UnmatchedStarts(doc, kind) # {}
     /\ \E L \in LinesOf(doc) :
           IsStartMarker(kind, doc[L + 1]) /\ L \notin UnmatchedStarts(doc, kind)
     /\ BlockDiagCount(diag, kind) = 2

IsIfOrElseIfLine(text) ==
  /\ ~isCommentLine(text)
  /\ LineStartsWithKw(text, KwIf) \/ LineStartsWithKw2(text, KwElse, WordIf)

\* the first non-blank, non-comment line among L+1 and L+2 begins with @Then
ThenFollows(d, L) ==
  LET cands == {i \in {L + 1, L + 2} \cap LinesOf(d) :
                  ~isBlank(d[i + 1]) /\ ~isCommentLine(d[i + 1])}
  IN /\ cands # {}
     /\ LineStartsWithKw(d[(CHOOSE i \in cands : \A j \in cands : i <= j) + 1], KwThen)

\* C3: a line-leading @If / @Else If line gets exactly one "@Then missing"
\* diagnostic unless @Then occurs on the line or the first non-blank,
\* non-comment line among the next two begins with @Then; no other line
\* gets one.
C3_ThenPresence ==
  \A L \in LinesOf(doc) :
     DiagCount(diag, L, "ThenMissing")
       = IF /\ IsIfOrElseIfLine(doc[L + 1])
            /\ ~hasThenSameLine(doc[L + 1])
            /\ ~ThenFollows(doc, L)
         THEN 1 ELSE 0

\* an @If line is flagged although @Then begins line L+3, after a blank and
\* a comment line
C3_Witness ==
  \E L \in LinesOf(doc) :
     /\ L + 3 \in LinesOf(doc)
     /\ IsIfOrElseIfLine(doc[L + 1])
     /\ isBlank(doc[L + 2]) \/ isCommentLine(doc[L + 2])
     /\ isBlank(doc[L + 3]) \/ isCommentLine(doc[L + 3])
     /\ LineStartsWithKw(doc[L + 4], KwThen)
     /\ DiagCount(diag, L, "ThenMissing") = 1

\* a comparison side that, trimmed and stripped of enclosing parentheses,
\* starts with a single quote and does not end with one
SideUnterminated(op) ==
  LET t == stripOuterParens(op)
  IN CharAt(t, 0) = "'" /\ CharAt(t, Len(t) - 1) # "'"

FragmentUnterminated(p) ==
  LET cmp == splitCompareTopLevel(p)
  IN cmp.found /\ (SideUnterminated(cmp.left) \/ SideUnterminated(cmp.right))

UnterminatedFragments(text) ==
  LET parts == splitByAndOrTopLevel(condAll(text))
  IN {k \in DOMAIN parts : FragmentUnterminated(parts[k])}

\* C8: an @If / @Else If line gets the "unterminated string in comparison"
\* diagnostic at most once, and exactly when some top-level And/Or fragment
\* of its condition has a comparison with an unterminated side; no other
\* line gets one.
C8_UnterminatedOncePerLine ==
  pc = "idle" =>
    \A L \in LinesOf(doc) :
       DiagCount(diag, L, "UnterminatedString")
         = IF IsIfOrElseIfLine(doc[L + 1]) /\ UnterminatedFragments(doc[L + 1]) # {}
           THEN 1 ELSE 0

\* two fragments of one condition are unterminated and the line is reported once
C8_Witness ==
  /\ pc = "idle"
  /\ \E L \in LinesOf(doc) :
        /\ Cardinality(UnterminatedFragments(doc[L + 1])) >= 2
        /\ DiagCount(diag, L, "UnterminatedString") = 1

\* the state of the quote automaton at the end of s
RECURSIVE QuoteOpenFrom(_, _, _)
QuoteOpenFrom(s, i, inQ) ==
  IF i >= Len(s) THEN inQ
  ELSE IF s[i + 1] = "'"
       THEN IF CharAt(s, i + 1) = "'" THEN QuoteOpenFrom(s, i + 2, inQ)
            ELSE QuoteOpenFrom(s, i + 1, ~inQ)
       ELSE QuoteOpenFrom(s, i + 1, inQ)

\* a fragment of the condition has a top-level comparison, and a
\* single-quoted literal opened in one of its operands is not closed
HasUnclosedLiteralInComparison(text) ==
  LET parts == splitByAndOrTopLevel(condAll(text))
  IN \E k \in DOMAIN parts :
        /\ splitCompareTopLevel(parts[k]).found
        /\ QuoteOpenFrom(parts[k], 0, FALSE)

\* C9: every @If / @Else If line whose condition has a comparison operand
\* holding a single-quoted literal that is opened and not closed on the line
\* gets an unterminated-string diagnostic, whichever side the literal is on.
C9_UnclosedLiteralReported ==
  pc = "idle" =>
    \A L \in LinesOf(doc) :
       (IsIfOrElseIfLine(doc[L + 1]) /\ HasUnclosedLiteralInComparison(doc[L + 1]))
          => DiagCount(diag, L, "UnterminatedString") >= 1

(***************************************************************************)
(* Properties of the declaration/use validator (SpecVar)                   *)
(***************************************************************************)

\* the function owning line L, read off the text: the number of the last
\* @Function line at or before L, unless an @End Function line lies
\* strictly between that line and L
OwnerOf(d, L) ==
  LET starts == {i \in 0..L : fnStartRe(d[i + 1])}
  IN IF starts = {} THEN -1
     ELSE IF \E i \in (MaxOf(starts) + 1)..(L - 1) : fnEndRe(d[i + 1]) THEN -1
     ELSE Cardinality(starts) - 1

\* what line L is to the validator: skipped (blank or comment), a
\* "@Function <name>" line, a "@String/@Int <name>" line, or a line checked
\* for uses; with the name it declares and the names it uses
LineFact(d, L) ==
  LET text == stripSingleQuoted2(d[L + 1])
      fm == fnNameRe(text)
      dm == declRe(text)
      kind == IF isBlank(d[L + 1]) \/ isCommentLine2(d[L + 1]) THEN "skip"
              ELSE IF fm # <<>> THEN "fn"
              ELSE IF dm # <<>> THEN "decl"
              ELSE "use"
      sets == setUseRe(text, 0)
      gets == getUseRe(text, 0)
  IN [owner |-> OwnerOf(d, L),
      kind |-> kind,
      name |-> IF kind = "fn" THEN fm ELSE IF kind = "decl" THEN dm ELSE <<>>,
      text |-> text,
      sets |-> IF kind = "use" THEN sets ELSE <<>>,
      gets |-> IF kind = "use" THEN gets ELSE <<>>,
      used |-> IF kind = "use"
               THEN {m.name : m \in SeqRange(sets) \cup SeqRange(gets)}
               ELSE {}]

RECURSIVE LineFactsFrom(_, _)
LineFactsFrom(d, L) ==
  IF L >= Len(d) THEN <<>> ELSE <<LineFact(d, L)>> \o LineFactsFrom(d, L + 1)

\* LineFacts(d)[L + 1] is the fact of line L
LineFacts(d) == LineFactsFrom(d, 0)

DeclaresGlobal(f, D, n) ==
  f[D + 1].kind = "decl" /\ f[D + 1].name = n /\ f[D + 1].owner = -1
DeclaresVarLocal(f, D, n) ==
  f[D + 1].kind = "decl" /\ f[D + 1].name = n /\ f[D + 1].owner # -1
DeclaresFnName(f, D, n) ==
  f[D + 1].kind = "fn" /\ f[D + 1].name = n /\ f[D + 1].owner # -1

\* n is declared on an earlier line, globally or in the function owning L
VisibleAt(f, L, n) ==
  \E D \in 0..(L - 1) :
     \/ DeclaresGlobal(f, D, n)
     \/ /\ DeclaresVarLocal(f, D, n) \/ DeclaresFnName(f, D, n)
        /\ f[D + 1].owner = f[L + 1].owner

Flagged(ds, L, n) == \E k \in DOMAIN ds : ds[k].line = L /\ ds[k].name = n

\* C1: on a line that is neither a @Function <name> nor a @String/@Int
\* declaration, a used name is flagged if and only if no earlier line declares
\* it globally or in the function owning the line; nothing else is flagged.
C1_FlaggedIffNotInScope ==
  pc = "done" =>
    LET f == LineFacts(doc)
    IN /\ \A L \in LinesOf(doc) : \A n \in f[L + 1].used :
             Flagged(varDiag, L, n) <=> ~VisibleAt(f, L, n)
       /\ \A k \in DOMAIN varDiag :
             /\ varDiag[k].line \in LinesOf(doc)
             /\ varDiag[k].name \in f[varDiag[k].line + 1].used

\* a name declared by @Int only inside one function is flagged on a line of
\* another function or of the top level, after the declaration
C1_Witness ==
  /\ pc = "done"
  /\ LET f == LineFacts(doc)
     IN \E L \in LinesOf(doc) : \E D \in 0..(L - 1) : \E n \in f[L + 1].used :
           /\ DeclaresVarLocal(f, D, n)
           /\ f[D + 1].owner # f[L + 1].owner
           /\ Flagged(varDiag, L, n)

\* C4, growth: a step of the walk never removes a name from a declared set
DeclaredSetsGrow ==
  /\ globalDeclared \subseteq globalDeclared'
  /\ \A fn \in DOMAIN localDeclaredByFunc :
        /\ fn \in DOMAIN localDeclaredByFunc'
        /\ localDeclaredByFunc[fn] \subseteq localDeclaredByFunc'[fn]

\* C4, order: a use after a declaration of the same scope is accepted; a use
\* with no visible earlier declaration is rejected even when a later line of
\* the same scope declares the name
DeclaredInDocumentOrder ==
  pc = "done" =>
    LET f == LineFacts(doc)
    IN \A L \in LinesOf(doc) : \A n \in f[L + 1].used :
          /\ (\E D \in 0..(L - 1) :
                 /\ DeclaresGlobal(f, D, n) \/ DeclaresVarLocal(f, D, n)
                 /\ f[D + 1].owner = f[L + 1].owner)
             => ~Flagged(varDiag, L, n)
          /\ (/\ ~VisibleAt(f, L, n)
              /\ \E D \in (L + 1)..(Len(doc) - 1) :
                    /\ DeclaresGlobal(f, D, n) \/ DeclaresVarLocal(f, D, n)
                    /\ f[D + 1].owner = f[L + 1].owner)
             => Flagged(varDiag, L, n)

UsedNameSpans(fact) ==
  {[start |-> m.last - Len(m.name), end |-> m.last, name |-> m.name] :
      m \in SeqRange(fact.sets)}
  \cup
  {[start |-> SkipWs(fact.text, m.index + Len(KwGetParen)),
    end |-> SkipWs(fact.text, m.index + Len(KwGetParen)) + Len(m.name),
    name |-> m.name] : m \in SeqRange(fact.gets)}

\* C5: every undeclared-variable diagnostic lies on the line of the use and
\* its range [start, end) is the place of the used name, after "@Set " or
\* inside the parentheses of "@Get(...)"; one diagnostic per undeclared use.
C5_DiagnosticSpansUsedName ==
  pc = "done" =>
    LET f == LineFacts(doc)
    IN /\ \A k \in DOMAIN varDiag :
             \E sp \in UsedNameSpans(f[varDiag[k].line + 1]) :
                /\ sp.start = varDiag[k].start
                /\ sp.end = varDiag[k].end
                /\ sp.name = varDiag[k].name
       /\ \A L \in LinesOf(doc) :
             Cardinality({k \in DOMAIN varDiag : varDiag[k].line = L})
               = Cardinality({k \in DOMAIN f[L + 1].sets :
                                ~VisibleAt(f, L, f[L + 1].sets[k].name)})
                 + Cardinality({k \in DOMAIN f[L + 1].gets :
                                ~VisibleAt(f, L, f[L + 1].gets[k].name)})

\* C6: once the walk is over, the name of every @Function <name> line is in
\* the local set of that function; the name is never flagged on a later line
\* of the same function, and on a line of another function or of the top
\* level it is flagged unless it is declared there or globally.
C6_FunctionNameIsLocal ==
  pc = "done" =>
    LET f == LineFacts(doc)
    IN \A L \in LinesOf(doc) : f[L + 1].kind = "fn" =>
          /\ lineToFunc[L + 1] \in DOMAIN localDeclaredByFunc
          /\ f[L + 1].name \in localDeclaredByFunc[lineToFunc[L + 1]]
          /\ \A U \in LinesOf(doc) : f[L + 1].name \in f[U + 1].used =>
                /\ (U > L /\ f[U + 1].owner = f[L + 1].owner)
                      => ~Flagged(varDiag, U, f[L + 1].name)
                /\ (f[U + 1].owner # f[L + 1].owner /\ ~VisibleAt(f, U, f[L + 1].name))
                      => Flagged(varDiag, U, f[L + 1].name)

\* a function's name is accepted on a later line of that function and
\* flagged on a line of another function
C6_Witness ==
  /\ pc = "done"
  /\ LET f == LineFacts(doc)
     IN \E L \in LinesOf(doc) : \E U \in LinesOf(doc) : \E V \in LinesOf(doc) :
           /\ f[L + 1].kind = "fn"
           /\ U > L /\ f[U + 1].owner = f[L + 1].owner
           /\ f[L + 1].name \in f[U + 1].used
           /\ ~Flagged(varDiag, U, f[L + 1].name)
           /\ f[V + 1].owner # f[L + 1].owner /\ f[V + 1].owner # -1
           /\ f[L + 1].name \in f[V + 1].used
           /\ Flagged(varDiag, V, f[L + 1].name)

\* the parameter names written between the parentheses of a @Function line
ParamNames(text) ==
  LET e == IdentEnd(text, SkipWs(text, SkipWs(text, 0) + Len(KwFunction)))
      open == SkipWs(text, e)
      closes == {c \in open..Len(text) : CharAt(text, c) = ")"}
      close == IF closes = {} THEN Len(text) ELSE CHOOSE c \in closes : \A x \in closes : c <= x
  IN IF CharAt(text, open) # "(" THEN {}
     ELSE {Slice(text, a, IdentEnd(text, a)) :
             a \in {b \in (open + 1)..(close - 1) :
                      /\ CharAt(text, b) \in IdentStartSet
                      /\ ~isIdentChar(CharAt(text, b - 1))}}

\* C7: a parameter of "@Function F(p1,p2)" is not reported as undeclared
\* when used through @Get(p1) or @Set p1 inside the body of that function.
C7_ParametersNotFlagged ==
  pc = "done" =>
    LET f == LineFacts(doc)
    IN \A L \in LinesOf(doc) : f[L + 1].kind = "fn" =>
          \A q \in ParamNames(f[L + 1].text) :
             \A U \in LinesOf(doc) :
                (U > L /\ f[U + 1].owner = f[L + 1].owner) => ~Flagged(varDiag, U, q)

(***************************************************************************)
(* Properties of the classifier (SpecTok)                                  *)
(***************************************************************************)
SpanEnd(t) == t.start + t.length

SpansOverlap(a, b) ==
  a.line = b.line /\ a.start < SpanEnd(b) /\ b.start < SpanEnd(a)

\* the pushed spans are those of provideTokens
TokensAreProvideTokens == pc = "done" => tokens = provideTokens(doc)

\* C10: no two spans pushed for a line overlap in column range; in
\* particular no span is pushed twice, and an ablReturn span never overlaps
\* an ablFunctionDecl span or a call span.
C10_SpansDoNotOverlap ==
  \A a, b \in DOMAIN tokens : a # b => ~SpansOverlap(tokens[a], tokens[b])

\* the columns of a line's condition region: after the leading @If / @Else If
\* keyword, up to the @Then of the line (or its end)
ConditionFrom(text) ==
  IF LineStartsWithKw(text, KwIf) THEN SkipWs(text, 0) + Len(KwIf)
  ELSE SkipWs(text, SkipWs(text, 0) + Len(KwElse)) + Len(WordIf)

ConditionTo(text) == IF thenIdx(text) >= 0 THEN thenIdx(text) ELSE Len(text)

\* the And / Or keywords and comparison operators of columns c..to-1, read
\* left to right, as [start, length]
RECURSIVE LogicSitesFrom(_, _, _)
LogicSitesFrom(text, c, to) ==
  IF c >= to THEN {}
  ELSE LET n == logicLengthAt(text, c)
       IN IF n > 0
          THEN {[start |-> c, length |-> n]} \cup LogicSitesFrom(text, c + n, to)
          ELSE LogicSitesFrom(text, c + 1, to)

LogicSites(text) ==
  IF IsIfOrElseIfLine(text)
  THEN LogicSitesFrom(text, ConditionFrom(text), ConditionTo(text))
  ELSE {}

LogicSpansOver(toks, L, site) ==
  {k \in DOMAIN toks :
     /\ toks[k].kind = "ablLogic"
     /\ SpansOverlap(toks[k], [line |-> L, start |-> site.start, length |-> site.length])}

\* C11: in the condition region of an @If / @Else If line every And / Or
\* keyword at a word boundary and every comparison operator gets exactly one
\* ablLogic span, which covers it; so '@If a=b @Then' gets one span, at '='.
C11_OneLogicSpanPerOperator ==
  pc = "done" =>
    \A L \in LinesOf(doc) :
       \A site \in LogicSites(doc[L + 1]) :
          /\ Cardinality(LogicSpansOver(tokens, L, site)) = 1
          /\ \A k \in LogicSpansOver(tokens, L, site) :
                tokens[k].start = site.start /\ tokens[k].length = site.length

\* the columns of a line at which an @If or @Else If keyword stands
IfKeywordColumns(text) ==
  {c \in 0..(Len(text) - 1) : isIfAt(text, c) \/ isElseIfAt(text, c)}

\* C12: an ablLogic span is pushed only for an And / Or keyword or a
\* comparison operator that follows an @If / @Else If on its line; a line
\* without @If / @Else If gets no ablLogic span.
C12_LogicSpansOnlyInConditions ==
  pc = "done" =>
    \A k \in DOMAIN tokens :
       tokens[k].kind = "ablLogic" =>
          LET text == doc[tokens[k].line + 1]
          IN /\ \E c \in IfKeywordColumns(text) : c < tokens[k].start
             /\ logicLengthAt(text, tokens[k].start) = tokens[k].length

\* the columns of a line at which a ^Data / ^Class token starts
MetaColumns(text) ==
  {c \in 0..(Len(text) - 1) :
     StartsWith(text, CaretData, c) \/ StartsWith(text, CaretClass, c)}

\* C13: a token that starts with ^Data or ^Class and runs through its
\* '.name', '[...]' and '!' parts is pushed as one single span whose extent
\* is the whole token.
C13_MetaAccessorWholeExtent ==
  pc = "done" =>
    \A L \in LinesOf(doc) :
       \A c \in MetaColumns(doc[L + 1]) :
          LET spans == {k \in DOMAIN tokens : tokens[k].line = L /\ tokens[k].start = c}
          IN /\ Cardinality(spans) = 1
             /\ \A k \in spans : SpanEnd(tokens[k]) = metaExtentEnd(doc[L + 1], c)

\* column c of a line lies inside a single-quoted literal
InsideLiteral(text, c) == QuoteOpenFrom(Slice(text, 0, c), 0, FALSE)

\* C14: the scan pushes no call, map-call or logic-operator span (and so no
\* call frame, which is pushed together with its span) for an '@' or operator
\* that lies inside a single-quoted literal of its line.
C14_NothingInsideLiterals ==
  \A k \in DOMAIN tokens :
     tokens[k].kind \in {"ablFunc", "ablFunctionCall", "ablMap", "ablLogic"}
        => ~InsideLiteral(doc[tokens[k].line + 1], tokens[k].start)

AttachPunctuation == {"(", ")", ",", "]", "|", "'", "\"", "!"}

\* the '@' at column c of a line starts a call, a map call or an
\* @If / @Else / @Then keyword
StartsCallOrKeyword(text, c) ==
  \/ callAt(text, c).found
  \/ mapName(text, c) # -1 /\ mapParenIndex(text, mapName(text, c)) # -1
  \/ StartsWith(text, KwIf, c)
  \/ StartsWith(text, KwElse, c)
  \/ StartsWith(text, KwThen, c)

\* the scan stands on an inner '@': a frame is open, the '@' starts nothing
\* and it is attached to an identifier or to punctuation
OnInnerAt ==
  /\ pc = "tokChar"
  /\ scan.i < Len(doc[line + 1])
  /\ scan.stack # <<>>
  /\ CharAt(doc[line + 1], scan.i) = "@"
  /\ ~StartsCallOrKeyword(doc[line + 1], scan.i)
  /\ \/ isIdentChar(CharAt(doc[line + 1], scan.i - 1))
     \/ CharAt(doc[line + 1], scan.i - 1) \in AttachPunctuation
     \/ CharAt(doc[line + 1], scan.i + 1) \in AttachPunctuation

InnerAtIsPushed ==
  OnInnerAt =>
    /\ Len(tokens') = Len(tokens) + 1
    /\ tokens'[Len(tokens')] = [line |-> line, start |-> scan.i, length |-> 1,
                                kind |-> scan.stack[Len(scan.stack)].kind]

TokensOfLine(toks, L) == SelectSeq(toks, LAMBDA t : t.line = L)

MapGetExample ==
  pc = "done" =>
    \A L \in LinesOf(doc) :
       doc[L + 1] = LnMapGet =>
          TokensOfLine(tokens, L)
            = <<[line |-> L, start |-> 0, length |-> 9, kind |-> "ablMap"],
                [line |-> L, start |-> 11, length |-> 1, kind |-> "ablMap"]>>

\* C15: while a call frame is open, an '@' that starts no call, map call or
\* @If / @Then keyword and that follows an identifier character or attach
\* punctuation, or precedes attach punctuation, is pushed as a one-character
\* span of the innermost frame's kind; '@Map.Get@(K@)' gives an ablMap span
\* over '@Map.Get@' and one on the '@' before ')'.
C15_InnerAtTakesInnermostKind == [][InnerAtIsPushed]_vars /\ []MapGetExample

\* the inner '@' of the inner call and the one of the outer call of
\* '@Get(@G(a@)@)' have been pushed, each with its own frame's kind
C15_Witness ==
  /\ pc = "done"
  /\ \E L \in LinesOf(doc) :
        /\ doc[L + 1] = LnNestedCalls
        /\ \E k \in DOMAIN tokens :
              tokens[k] = [line |-> L, start |-> 9, length |-> 1, kind |-> "ablFunctionCall"]
        /\ \E k \in DOMAIN tokens :
              tokens[k] = [line |-> L, start |-> 11, length |-> 1, kind |-> "ablFunc"]

\* the identifier after the '@' at column c
CallName(text, c) == Slice(text, c + 1, IdentEnd(text, c + 1))

\* column c holds '@Name', then an optional '@', optional blanks and '(',
\* and Name is neither a control word, nor a writer keyword, nor 'Map.'
IsCallShape(text, c) ==
  LET name == CallName(text, c)
      e == c + 1 + Len(name)
      e1 == IF CharAt(text, e) = "@" THEN e + 1 ELSE e
  IN /\ CharAt(text, c) = "@"
     /\ CharAt(text, c + 1) \in IdentStartSet
     /\ CharAt(text, SkipWs(text, e1)) = "("
     /\ name \notin AT_CONTROL_WORDS
     /\ name \notin WRITER_KEYWORDS
     /\ ~(name = WordMap /\ CharAt(text, e) = ".")

CallKind(name) == IF name \in BUILTIN_FUNCTIONS THEN "ablFunc" ELSE "ablFunctionCall"

\* the names with an '@Function <name>' line in d
DeclaredFunctionNames(d) ==
  {fnNameRe(d[L + 1]) : L \in {K \in LinesOf(d) : fnStartRe(d[K + 1])}} \ {<<>>}

\* C16: an '@Name' followed by '(' (after an optional '@' and blanks), Name
\* not a control word, writer keyword or 'Map.', gets one span at its '@':
\* ablFunc when Name is in the builtin table, ablFunctionCall otherwise,
\* whether or not, and wherever, '@Function Name' is declared.
C16_CallKindByBuiltinTable ==
  pc = "done" =>
    \A L \in LinesOf(doc) :
       \A c \in 0..(Len(doc[L + 1]) - 1) :
          IsCallShape(doc[L + 1], c) =>
             LET spans == {k \in DOMAIN tokens : tokens[k].line = L /\ tokens[k].start = c}
             IN /\ Cardinality(spans) = 1
                /\ \A k \in spans : tokens[k].kind = CallKind(CallName(doc[L + 1], c))

\* a call of G written before the line '@Function G' is a user function call,
\* next to a builtin call
C16_Witness ==
  /\ pc = "done"
  /\ Len(doc) = 2
  /\ doc[1] = LnNestedCalls
  /\ doc[2] = LnFunctionG
  /\ <<"G">> \in DeclaredFunctionNames(doc)
  /\ \E k \in DOMAIN tokens :
        tokens[k] = [line |-> 0, start |-> 5, length |-> 2, kind |-> "ablFunctionCall"]
  /\ \E k \in DOMAIN tokens :
        tokens[k] = [line |-> 0, start |-> 0, length |-> 4, kind |-> "ablFunc"]

\* C17: the spans are pushed in line-major order and, within a line, in
\* ascending start column, the ablReturn spans of '@Set <name>' and
\* '@Get(<name>)' included.
C17_PushedInDocumentOrder ==
  \A k \in 1..(Len(tokens) - 1) :
     \/ tokens[k].line < tokens[k + 1].line
     \/ tokens[k].line = tokens[k + 1].line /\ tokens[k].start <= tokens[k + 1].start

(***************************************************************************)
(* Properties of the diagnostic collections (SpecDocs)                     *)
(***************************************************************************)
AblUris == {u \in DOMAIN documents : documents[u].languageId = "abl"}

\* C18: once an event for an 'abl' document has been processed, each
\* collection holds for it exactly the diagnostics computed from its current
\* text: the list of the last pass replaces the earlier one.
C18_StoredDiagnosticsAreFresh ==
  \A u \in AblUris :
     /\ u \in DOMAIN diagCollection
     /\ u \in DOMAIN varDiagCollection
     /\ diagCollection[u] = provideIfDiagnostics(documents[u].text)
     /\ varDiagCollection[u] = provideUndeclaredVarDiagnostics(documents[u].text)

\* an 'abl' document reads '@If a' / '@End If': the "missing @End If" of the
\* pass over '@If a' alone is gone, the "@Then missing" is stored
C18_Witness ==
  \E u \in AblUris :
     /\ documents[u].text = <<LnIfA, LnEndIf>>
     /\ Len(diagCollection[u]) = 1
     /\ diagCollection[u][1].message = "ThenMissing"

\* an event for one document leaves what is stored for every other uri alone
OtherUrisKeepDiagnostics ==
  \A u \in Uris :
     (u \in DOMAIN documents /\ u \in DOMAIN documents' /\ documents'[u] = documents[u])
        => /\ (u \in DOMAIN diagCollection') = (u \in DOMAIN diagCollection)
           /\ (u \in DOMAIN varDiagCollection') = (u \in DOMAIN varDiagCollection)
           /\ u \in DOMAIN diagCollection => diagCollection'[u] = diagCollection[u]
           /\ u \in DOMAIN varDiagCollection => varDiagCollection'[u] = varDiagCollection[u]

\* what is stored for a document is determined by its own text
SameTextSameDiagnostics ==
  \A u, v \in AblUris :
     documents[u].text = documents[v].text
        => /\ diagCollection[u] = diagCollection[v]
           /\ varDiagCollection[u] = varDiagCollection[v]

\* C19: in every interleaving of events on two documents, an event for one
\* leaves the diagnostics stored for the other unchanged, and the diagnostics
\* of a document depend on its own text only.
C19_DocumentsAreIndependent ==
  [][OtherUrisKeepDiagnostics]_vars /\ []SameTextSameDiagnostics

\* two 'abl' documents with different texts hold different, non-empty lists
C19_Witness ==
  /\ AblUris = Uris
  /\ documents["A"].text # documents["B"].text
  /\ diagCollection["A"] # <<>>
  /\ diagCollection["B"] # <<>>
  /\ diagCollection["A"] # diagCollection["B"]
  /\ varDiagCollection["A"] # varDiagCollection["B"]

(***************************************************************************)
(* Properties of the masking of literals (SpecMask)                        *)
(***************************************************************************)
\* the masked line is as long as the raw line; a character outside a literal
\* keeps its column, one inside a literal is blanked
MaskKeepsColumns(raw) ==
  LET masked == stripSingleQuoted2(raw)
  IN /\ Len(masked) = Len(raw)
     /\ \A c \in 0..(Len(raw) - 1) :
           raw[c + 1] # "'" =>
              masked[c + 1] = IF InsideLiteral(raw, c) THEN " " ELSE raw[c + 1]

\* the columns at which '@Set' or '@Get(' is written inside a literal
MaskedUseColumns(raw) ==
  {c \in 0..(Len(raw) - 1) :
     /\ StartsWith(raw, KwSet, c) \/ StartsWith(raw, KwGetParen, c)
     /\ InsideLiteral(raw, c)}

\* C20: an '@Set <name>' or '@Get(<name>)' written inside a single-quoted
\* literal of its line is never reported as an undeclared use; the masked
\* line has the length of the raw line and every character outside a literal
\* keeps its column.
C20_LiteralsAreMasked ==
  /\ \A L \in LinesOf(doc) : MaskKeepsColumns(doc[L + 1])
  /\ pc = "done" =>
        \A k \in DOMAIN varDiag :
           \A c \in varDiag[k].start..(varDiag[k].end - 1) :
              ~InsideLiteral(doc[varDiag[k].line + 1], c)

\* a use written inside a literal is not reported while one outside it is
C20_Witness ==
  /\ pc = "done"
  /\ MaskedUseColumns(doc[1]) # {}
  /\ Len(varDiag) = 1

(***************************************************************************)
(* stripSingleQuoted: single-quoted spans removed from a text              *)
(***************************************************************************)
\* mutant of stripSingleQuoted: '' outside a literal is kept as one quote
RECURSIVE stripSingleQuoted_KeepsEscapedQuote(_)
stripSingleQuoted_KeepsEscapedQuote(text) ==
  IF text = <<>> THEN <<>>
  ELSE IF Head(text) # "'" THEN <<Head(text)>> \o stripSingleQuoted_KeepsEscapedQuote(Tail(text))
  ELSE IF CharAt(text, 1) = "'"
       THEN <<"'">> \o stripSingleQuoted_KeepsEscapedQuote(SubSeq(text, 3, Len(text)))
       ELSE LET close == indexOf(Tail(text), <<"'">>)
            IN IF close < 0 THEN <<>>
               ELSE stripSingleQuoted_KeepsEscapedQuote(SubSeq(text, close + 3, Len(text)))

RECURSIVE stripSingleQuotedFrom(_, _, _)
stripSingleQuotedFrom(text, i, inQ) ==
  IF i >= Len(text) THEN <<>>
  ELSE LET ch == text[i + 1]
           next == CharAt(text, i + 1)
       IN IF ch = "'"
          THEN IF next = "'"
               THEN stripSingleQuotedFrom(text, i + 2, inQ)
               ELSE stripSingleQuotedFrom(text, i + 1, ~inQ)
          ELSE (IF inQ THEN <<>> ELSE <<ch>>) \o stripSingleQuotedFrom(text, i + 1, inQ)

stripSingleQuoted(text) == stripSingleQuotedFrom(text, 0, FALSE)

(***************************************************************************)
(* SpecQuote: stripSingleQuoted and stripSingleQuoted2 applied to a text,  *)
(* and again to what they returned                                         *)
(***************************************************************************)
MaxQuoteLen == 5
MaxApplications == 2

QuoteChars == {"'", "a", " "}

QuoteTexts == UNION {[1..n -> QuoteChars] : n \in 0..MaxQuoteLen}

InitQuote ==
  /\ arg \in QuoteTexts
  /\ result = [stripSingleQuoted |-> <<>>, stripSingleQuoted2 |-> <<>>]
  /\ pc = "quote"
  /\ doc = <<>>
  /\ line = 0
  /\ lineToFunc = <<>>
  /\ globalDeclared = {}
  /\ localDeclaredByFunc = EmptyMap
  /\ diagnostics = <<>>
  /\ varDiag = <<>>
  /\ diag = <<>>
  /\ tokens = <<>>
  /\ scan = NoScan
  /\ userFunctions = {}
  /\ documents = NoEntries
  /\ diagCollection = NoEntries
  /\ varDiagCollection = NoEntries

\* the text the next application takes: arg, then the last text returned
NextInput(outs) == IF outs = <<>> THEN arg ELSE outs[Len(outs)]

ApplyStripSingleQuoted ==
  /\ pc = "quote"
  /\ Len(result.stripSingleQuoted) < MaxApplications
  /\ result' = [result EXCEPT !.stripSingleQuoted =
                  Append(@, stripSingleQuoted(NextInput(@)))]
  /\ UNCHANGED <<doc, pc, line, lineToFunc, globalDeclared, localDeclaredByFunc,
                 diagnostics, varDiag, diag, tokens, scan, userFunctions,
                 documents, diagCollection, varDiagCollection, arg>>

ApplyStripSingleQuoted2 ==
  /\ pc = "quote"
  /\ Len(result.stripSingleQuoted2) < MaxApplications
  /\ result' = [result EXCEPT !.stripSingleQuoted2 =
                  Append(@, stripSingleQuoted2(NextInput(@)))]
  /\ UNCHANGED <<doc, pc, line, lineToFunc, globalDeclared, localDeclaredByFunc,
                 diagnostics, varDiag, diag, tokens, scan, userFunctions,
                 documents, diagCollection, varDiagCollection, arg>>

NextQuote == ApplyStripSingleQuoted \/ ApplyStripSingleQuoted2

SpecQuote == InitQuote /\ [][NextQuote]_vars

(***************************************************************************)
(* Properties of quote stripping (SpecQuote)                               *)
(***************************************************************************)
\* every text after the first application equals the first one
SameAsOnce(outs) == \A k \in 1..Len(outs) : outs[k] = outs[1]

\* C21: quote stripping is idempotent: stripSingleQuoted applied again to
\* what it returned gives that text back, and so does the masking variant
\* stripSingleQuoted2.
C21_QuoteStrippingIdempotent ==
  pc = "quote" =>
    /\ SameAsOnce(result.stripSingleQuoted)
    /\ SameAsOnce(result.stripSingleQuoted2)
    /\ result.stripSingleQuoted # <<>> =>
         result.stripSingleQuoted[1] = stripSingleQuoted(arg)
    /\ result.stripSingleQuoted2 # <<>> =>
         result.stripSingleQuoted2[1] = stripSingleQuoted2(arg)

\* both functions applied twice to a text with an empty literal '' followed
\* by an opening quote and text: the first application changes the text
C21_Witness ==
  /\ pc = "quote"
  /\ arg = <<"a", "'", "'", "'", "a">>
  /\ Len(result.stripSingleQuoted) = 2
  /\ Len(result.stripSingleQuoted2) = 2
  /\ result.stripSingleQuoted[1] = <<"a">>
  /\ result.stripSingleQuoted2[1] = <<"a", " ", " ", " ", " ">>

(***************************************************************************)
(* Properties of repeated declarations (SpecVar)                           *)
(***************************************************************************)
\* line L declares a variable that an earlier line of the same scope declares
RepeatsDeclaration(f, L) ==
  /\ f[L + 1].kind = "decl"
  /\ \E D \in 0..(L - 1) :
        /\ f[D + 1].kind = "decl"
        /\ f[D + 1].name = f[L + 1].name
        /\ f[D + 1].owner = f[L + 1].owner

\* C22: a second '@String x' / '@Int x' line for a name already declared in
\* the same scope (top level, or the same function) is reported by a
\* diagnostic on the repeated declaration.
C22_RepeatedDeclarationReported ==
  pc = "done" =>
    LET f == LineFacts(doc)
    IN \A L \in LinesOf(doc) :
          RepeatsDeclaration(f, L) => \E k \in DOMAIN varDiag : varDiag[k].line = L

(***************************************************************************)
(* Properties of the classifier's call frames (SpecTok)                    *)
(***************************************************************************)
Depths(stack) == [k \in DOMAIN stack |-> stack[k].depth]

\* the depths after the characters of s, by the bookkeeping of parentheses:
\* '(' raises the top frame's depth, ')' lowers it and pops the frame at 0
RECURSIVE Bookkeep(_, _)
Bookkeep(depths, s) ==
  IF s = <<>> THEN depths
  ELSE LET n == Len(depths)
           d1 == IF n = 0 THEN depths
                 ELSE IF Head(s) = "(" THEN [depths EXCEPT ![n] = @ + 1]
                 ELSE IF Head(s) = ")"
                      THEN IF depths[n] = 1 THEN SubSeq(depths, 1, n - 1)
                           ELSE [depths EXCEPT ![n] = @ - 1]
                      ELSE depths
       IN Bookkeep(d1, Tail(s))

FramesHaveDepth == \A k \in DOMAIN scan.stack : scan.stack[k].depth >= 1

\* a step of the character loop: the characters it consumes either end with
\* the '(' that opens a new frame of depth 1, or move the depths as the
\* bookkeeping of parentheses says
FrameStep ==
  (pc = "tokChar" /\ pc' = "tokChar") =>
    LET consumed == Slice(doc[line + 1], scan.i, scan'.i)
    IN IF Len(scan'.stack) = Len(scan.stack) + 1
       THEN /\ consumed[Len(consumed)] = "("
            /\ Depths(scan'.stack) = Append(Depths(scan.stack), 1)
       ELSE Depths(scan'.stack) = Bookkeep(Depths(scan.stack), consumed)

LineStartsWithoutFrames == (pc = "tokLine" /\ pc' = "tokChar") => scan'.stack = <<>>

\* C23: at every step of the scan of a line every frame on the stack has
\* depth >= 1; a frame is pushed with depth 1 when its opening '(' is
\* consumed, every later '(' raises the top frame's depth by one and every
\* ')' lowers it by one, the frame being popped at the ')' that matches its
\* opening '('; the stack is empty when a line starts.
C23_FrameDepthBookkeeping ==
  [][FrameStep /\ LineStartsWithoutFrames]_vars /\ []FramesHaveDepth

(***************************************************************************)
(* SpecSplit: splitCompareTopLevel and splitByAndOrTopLevel called on a    *)
(* text of operators, quotes, parentheses, And / Or and letters            *)
(***************************************************************************)
MaxSplitPieces == 4

PcQuotedEq == <<"'", "=", "'">>

SplitPieces == {<<"<">>, <<">">>, <<"=">>, <<"'">>, <<"(">>, <<")">>, <<"a">>,
                PcQuotedEq, WordAnd, WordOr}

SplitTexts == {Flatten(ps) : ps \in UNION {[1..n -> SplitPieces] : n \in 0..MaxSplitPieces}}

InitSplit ==
  /\ arg \in SplitTexts
  /\ result = <<>>
  /\ pc = "split"
  /\ doc = <<>>
  /\ line = 0
  /\ lineToFunc = <<>>
  /\ globalDeclared = {}
  /\ localDeclaredByFunc = EmptyMap
  /\ diagnostics = <<>>
  /\ varDiag = <<>>
  /\ diag = <<>>
  /\ tokens = <<>>
  /\ scan = NoScan
  /\ userFunctions = {}
  /\ documents = NoEntries
  /\ diagCollection = NoEntries
  /\ varDiagCollection = NoEntries

CallSplitCompareTopLevel ==
  /\ pc = "split"
  /\ result' = splitCompareTopLevel(arg)
  /\ pc' = "splitCompareTopLevel"
  /\ UNCHANGED <<doc, line, lineToFunc, globalDeclared, localDeclaredByFunc,
                 diagnostics, varDiag, diag, tokens, scan, userFunctions,
                 documents, diagCollection, varDiagCollection, arg>>

CallSplitByAndOrTopLevel ==
  /\ pc = "split"
  /\ result' = splitByAndOrTopLevel(arg)
  /\ pc' = "splitByAndOrTopLevel"
  /\ UNCHANGED <<doc, line, lineToFunc, globalDeclared, localDeclaredByFunc,
                 diagnostics, varDiag, diag, tokens, scan, userFunctions,
                 documents, diagCollection, varDiagCollection, arg>>

NextSplit == CallSplitCompareTopLevel \/ CallSplitByAndOrTopLevel

SpecSplit == InitSplit /\ [][NextSplit]_vars

(***************************************************************************)
(* Properties of the splitters (SpecSplit)                                 *)
(***************************************************************************)
\* the parenthesis nesting depth in front of column c: parentheses inside a
\* literal do not count, and a ')' with nothing open leaves the depth at 0
RECURSIVE DepthBefore(_, _)
DepthBefore(s, c) ==
  IF c = 0 THEN 0
  ELSE LET d == DepthBefore(s, c - 1)
           ch == s[c]
       IN IF InsideLiteral(s, c - 1) THEN d
          ELSE IF ch = "(" THEN d + 1
          ELSE IF ch = ")" /\ d > 0 THEN d - 1
          ELSE d

\* column c holds a character outside every literal and every parenthesis
TopLevel(s, c) ==
  /\ CharAt(s, c) \notin {"", "'", "(", ")"}
  /\ ~InsideLiteral(s, c)
  /\ DepthBefore(s, c) = 0

CompareColumns(expr) ==
  {c \in 0..(Len(expr) - 1) : TopLevel(expr, c) /\ expr[c + 1] \in {"<", ">", "="}}

TwoCharOps == { <<"<", ">">>, <<">", "=">>, <<"<", "=">> }

\* C24: splitCompareTopLevel(expr) returns none exactly when no comparison
\* operator stands outside the literals at parenthesis depth 0; otherwise it
\* splits at the leftmost such column, takes '<>', '>=' or '<=' when one of
\* them starts there and the single character otherwise, and left, operator
\* and right concatenate back to expr.
C24_SplitCompareAtLeftmostOperator ==
  pc = "splitCompareTopLevel" =>
    LET cols == CompareColumns(arg)
        c == CHOOSE x \in cols : \A y \in cols : x <= y
    IN /\ result.found <=> cols # {}
       /\ result.found =>
            /\ Len(result.left) = c
            /\ result.op = IF \E op \in TwoCharOps : StartsWith(arg, op, c)
                           THEN Slice(arg, c, c + 2) ELSE <<arg[c + 1]>>
            /\ result.left \o result.op \o result.right = arg

\* "'='<=a": the '=' inside the literal is passed over and the split is at
\* the two-character operator after it
C24_Witness ==
  /\ pc = "splitCompareTopLevel"
  /\ arg = PcQuotedEq \o <<"<", "=", "a">>
  /\ result = [found |-> TRUE, left |-> PcQuotedEq, op |-> <<"<", "=">>,
               right |-> <<"a">>]

\* the columns where And / Or stands as a word of its own at the top level
KeywordAt(s, c) ==
  IF StartsWith(s, WordAnd, c) THEN WordAnd
  ELSE IF StartsWith(s, WordOr, c) THEN WordOr
  ELSE <<>>

SplitColumns(s) ==
  {c \in 0..(Len(s) - 1) :
     /\ KeywordAt(s, c) # <<>>
     /\ TopLevel(s, c)
     /\ ~isIdentChar(CharAt(s, c - 1))
     /\ ~isIdentChar(CharAt(s, c + Len(KeywordAt(s, c))))}

\* the fragments joined back with the keywords removed at the columns cols
RECURSIVE JoinWithKeywords(_, _, _)
JoinWithKeywords(s, parts, at) ==
  IF Len(parts) <= 1 THEN Flatten(parts)
  ELSE LET c == at + Len(parts[1])
       IN parts[1] \o KeywordAt(s, c) \o JoinWithKeywords(s, Tail(parts), c + Len(KeywordAt(s, c)))

\* the columns at which the fragments parts of s were cut
RECURSIVE CutColumns(_, _, _)
CutColumns(s, parts, at) ==
  IF Len(parts) <= 1 THEN {}
  ELSE LET c == at + Len(parts[1])
       IN {c} \cup CutColumns(s, Tail(parts), c + Len(KeywordAt(s, c)))

\* C25: splitByAndOrTopLevel(text) cuts at an 'And' / 'Or' exactly when it
\* stands outside the literals, at parenthesis depth 0 and at a word
\* boundary; N cuts give N+1 fragments in order, and the fragments joined
\* with the removed keywords between them are the text again.
C25_SplitAtTopLevelKeywords ==
  pc = "splitByAndOrTopLevel" =>
    /\ CutColumns(arg, result, 0) = SplitColumns(arg)
    /\ Len(result) = Cardinality(SplitColumns(arg)) + 1
    /\ JoinWithKeywords(arg, result, 0) = arg

\* "(Or)And": the Or is inside parentheses, so the only cut is at And, and
\* the fragment after it is empty
C25_Witness ==
  /\ pc = "splitByAndOrTopLevel"
  /\ arg = <<"(">> \o WordOr \o <<")">> \o WordAnd
  /\ result = << <<"(">> \o WordOr \o <<")">>, <<>> >>

(***************************************************************************)
(* SpecFuncMap: buildFuncLineMap called on a document of @Function lines,  *)
(* @End Function lines and statements                                      *)
(***************************************************************************)
MaxMapLines == 4

MapCatalog == {LnFunctionF, LnFunctionGp, KwEndFunction, LnStatement}

MapDocs == UNION {[1..n -> MapCatalog] : n \in 0..MaxMapLines}

InitFuncMap ==
  /\ arg \in MapDocs
  /\ result = <<>>
  /\ pc = "funcMap"
  /\ doc = <<>>
  /\ line = 0
  /\ lineToFunc = <<>>
  /\ globalDeclared = {}
  /\ localDeclaredByFunc = EmptyMap
  /\ diagnostics = <<>>
  /\ varDiag = <<>>
  /\ diag = <<>>
  /\ tokens = <<>>
  /\ scan = NoScan
  /\ userFunctions = {}
  /\ documents = NoEntries
  /\ diagCollection = NoEntries
  /\ varDiagCollection = NoEntries

CallBuildFuncLineMap ==
  /\ pc = "funcMap"
  /\ result' = buildFuncLineMap(arg)
  /\ pc' = "buildFuncLineMap"
  /\ UNCHANGED <<doc, line, lineToFunc, globalDeclared, localDeclaredByFunc,
                 diagnostics, varDiag, diag, tokens, scan, userFunctions,
                 documents, diagCollection, varDiagCollection, arg>>

NextFuncMap == CallBuildFuncLineMap

SpecFuncMap == InitFuncMap /\ [][NextFuncMap]_vars

(***************************************************************************)
(* Properties of buildFuncLineMap (SpecFuncMap)                            *)
(***************************************************************************)
\* the function of line L when a function ends in front of its
\* @End Function line: the number of the last @Function line at or before L,
\* unless an @End Function line lies after that line and at or before L
OwnerEndingBeforeEnd(d, L) ==
  LET starts == {i \in 0..L : fnStartRe(d[i + 1])}
  IN IF starts = {} THEN -1
     ELSE IF \E i \in (MaxOf(starts) + 1)..L : fnEndRe(d[i + 1]) THEN -1
     ELSE Cardinality(starts) - 1

\* C26 as stated: a line is assigned to function k exactly when it is on or
\* after the k-th @Function line and before that function's @End Function
\* line; the @End Function line itself and every line outside a function are
\* assigned -1.
C26_EndLineIsTopLevel ==
  pc = "buildFuncLineMap" =>
    /\ Len(result) = Len(arg)
    /\ \A L \in LinesOf(arg) : result[L + 1] = OwnerEndingBeforeEnd(arg, L)

\* C26, corrected: a line is assigned to function k exactly when it is on or
\* after the k-th @Function line and at or before that function's
\* @End Function line, the @End Function line included; every other line is
\* assigned -1.
C26_EndLineBelongsToFunction ==
  pc = "buildFuncLineMap" =>
    /\ Len(result) = Len(arg)
    /\ \A L \in LinesOf(arg) : result[L + 1] = OwnerOf(arg, L)

\* a function of three lines followed by a statement: the @End Function line
\* is the function's, the statement after it is top level
C26_Witness ==
  /\ pc = "buildFuncLineMap"
  /\ arg = <<LnFunctionF, LnStatement, KwEndFunction, LnStatement>>
  /\ result = <<0, 0, 0, -1>>

(***************************************************************************)
(* Properties of the classifier's line locality (SpecTok)                  *)
(***************************************************************************)
\* the name written on the @Function line of the function line L is in
\* (<<>> at top level, or when that line carries no name)
EnclosingName(d, L) ==
  LET starts == {i \in 0..L : fnStartRe(d[i + 1])}
  IN IF OwnerOf(d, L) = -1 THEN <<>> ELSE fnNameRe(d[MaxOf(starts) + 1])

\* spans without their line number
Rebase(toks) == [k \in DOMAIN toks |->
                   [start |-> toks[k].start, length |-> toks[k].length,
                    kind |-> toks[k].kind]]

\* the smallest document in which a line with this text is in a function of
\* this name: the line alone, or the line under '@Function <name>'
ContextDoc(text, name) ==
  IF name = <<>> THEN <<text>> ELSE <<KwFunction \o <<" ">> \o name, text>>

\* the spans of the line in that document
LineSpans(text, name) ==
  LET d == ContextDoc(text, name)
  IN Rebase(TokensOfLine(provideTokens(d), Len(d) - 1))

\* C27: the spans pushed for a line (start column, length, category) are
\* those the line gets on its own under the name of its enclosing function,
\* so two documents that agree on a line's text and on that name agree on
\* the line's spans whatever their other lines are, and no scanner state
\* reaches the line from the line before it.
C27_SpansDependOnLineAndFunctionName ==
  /\ pc = "done" =>
       \A L \in LinesOf(doc) :
          Rebase(TokensOfLine(tokens, L)) = LineSpans(doc[L + 1], EnclosingName(doc, L))
  /\ (pc = "tokChar" /\ scan.i = 0) => scan = NoScan

\* '@Map.Get@(K@)' scanned after "@U('@V(')+1", whose scan ends with the
\* frame of '@U(' still open: its spans are those of the line on its own
C27_Witness ==
  /\ pc = "done"
  /\ doc = <<LnCallQuoted, LnMapGet>>
  /\ Rebase(TokensOfLine(tokens, 1)) = LineSpans(LnMapGet, <<>>)
  /\ Len(TokensOfLine(tokens, 1)) = 2

(***************************************************************************)
(* Properties of crossing blocks (SpecBlock)                               *)
(***************************************************************************)
\* the block-matching diagnostics of a kind, as (line, message) pairs
BlockDiagsOf(ds, kind) ==
  {<<ds[k].line, ds[k].message>> : k \in
     {i \in DOMAIN ds :
        ds[i].message \in {UnmatchedEndMessage[kind], MissingEndMessage[kind]}}}

IsMarkerOfOtherKind(kind, text) ==
  \E other \in BlockKinds \ {kind} : IsStartMarker(other, text) \/ IsEndMarker(other, text)

\* the document with the markers of every other kind replaced by a statement
OnlyKind(d, kind) ==
  [k \in DOMAIN d |-> IF IsMarkerOfOtherKind(kind, d[k]) THEN LnStatement ELSE d[k]]

CrossingExample == <<LnIfThen, KwFor, LnEndIf, LnEndFor>>

\* C28: block kinds are matched independently: the block-matching
\* diagnostics of a kind are those of the document without the other kinds'
\* markers, so a document whose kinds are each balanced has no
\* block-matching diagnostic even when blocks of different kinds cross, as in
\* '@If a = b @Then', '@For', '@End If', '@End For'.
C28_KindsMatchedIndependently ==
  /\ \A kind \in BlockKinds :
        BlockDiagsOf(diag, kind) = BlockDiagsOf(provideIfDiagnostics(OnlyKind(doc, kind)), kind)
  /\ (\A kind \in BlockKinds : Balanced(doc, kind))
        => \A kind \in BlockKinds : BlockDiagsOf(diag, kind) = {}

\* the crossing document has been typed and carries no diagnostic at all
C28_Witness ==
  /\ doc = CrossingExample
  /\ \A kind \in BlockKinds : Balanced(doc, kind)
  /\ diag = <<>>

(***************************************************************************)
(* Rename of a user-defined function: getAtIdentAtPosition,                *)
(* collectRenameRanges and renameProvider.provideRenameEdits               *)
(***************************************************************************)
\* getAtIdentAtPosition: the name of the word /@[A-Za-z_][A-Za-z0-9_]*/ that
\* holds the position (start <= character <= end), without its '@'; <<>> is null
getAtIdentAtPosition(d, pos) ==
  LET lineText == d[pos.line + 1]
      words == {i \in 0..pos.character :
                  /\ CharAt(lineText, i) = "@"
                  /\ CharAt(lineText, i + 1) \in IdentStartSet
                  /\ pos.character <= IdentEnd(lineText, i + 1)}
      at == CHOOSE i \in words : \A j \in words : i <= j
      name == Slice(lineText, at + 1, IdentEnd(lineText, at + 1))
  IN IF words = {} THEN <<>>
     ELSE IF name = WordMap /\ CharAt(lineText, IdentEnd(lineText, at + 1)) = "." THEN <<>>
     ELSE name

\* new RegExp(`^\\s*@Function\\s+${name}\\b`, 'i').exec(text) !== null
renameDeclRe(text, name) ==
  LET j == SkipWs(text, 0)
      k == SkipWs(text, j + Len(KwFunction))
  IN /\ StartsWithCI(text, KwFunction, j)
     /\ k > j + Len(KwFunction)
     /\ StartsWithCI(text, name, k)
     /\ ~isIdentChar(CharAt(text, k + Len(name)))

\* new RegExp(`@${name}(?:@)?\\s*\\(`, 'g') matched at i: the index after
\* the match, -1 when there is none
renameCallRe(text, name, i) ==
  LET j0 == i + 1 + Len(name)
      j1 == IF CharAt(text, j0) = "@" THEN j0 + 1 ELSE j0
      j2 == SkipWs(text, j1)
  IN IF StartsWith(text, <<"@">> \o name, i) /\ CharAt(text, j2) = "(" THEN j2 + 1 ELSE -1

\* the ranges pushed by the while loop over callRe.exec(text), from lastIndex
RECURSIVE renameCallRanges(_, _, _, _)
renameCallRanges(text, name, ln, lastIndex) ==
  IF lastIndex >= Len(text) THEN <<>>
  ELSE LET e == renameCallRe(text, name, lastIndex)
       IN IF e = -1 THEN renameCallRanges(text, name, ln, lastIndex + 1)
          ELSE <<[line |-> ln, start |-> lastIndex + 1, end |-> lastIndex + 1 + Len(name)]>>
               \o renameCallRanges(text, name, ln, e)

\* the two line loops of collectRenameRanges, for lines ln.. of d
RECURSIVE renameDeclarations(_, _, _)
renameDeclarations(d, name, ln) ==
  IF ln >= Len(d) THEN <<>>
  ELSE LET text == d[ln + 1]
           idx == indexOf(text, name)
       IN (IF renameDeclRe(text, name) /\ idx >= 0
           THEN <<[line |-> ln, start |-> idx, end |-> idx + Len(name)]>> ELSE <<>>)
          \o renameDeclarations(d, name, ln + 1)

RECURSIVE renameCallSites(_, _, _)
renameCallSites(d, name, ln) ==
  IF ln >= Len(d) THEN <<>>
  ELSE LET text == d[ln + 1]
       IN (IF isBlank(text) \/ isCommentLine(text) THEN <<>>
           ELSE renameCallRanges(text, name, ln, 0))
          \o renameCallSites(d, name, ln + 1)

collectRenameRanges(d, name) == renameDeclarations(d, name, 0) \o renameCallSites(d, name, 0)

\* targetName of provideRenameEdits: the '@' word at the position, else the
\* name declared on the position's line; <<>> is null
renameTargetName(d, pos) ==
  LET at == getAtIdentAtPosition(d, pos)
      text == d[pos.line + 1]
      k == SkipWs(text, SkipWs(text, 0) + Len(KwFunction))
  IN IF at # <<>> THEN at
     ELSE IF /\ StartsWithCI(text, KwFunction, SkipWs(text, 0))
             /\ k > SkipWs(text, 0) + Len(KwFunction)
             /\ CharAt(text, k) \in IdentStartSet
          THEN Slice(text, k, IdentEnd(text, k))
          ELSE <<>>

\* the ranges of the WorkspaceEdit returned by provideRenameEdits
renameEditRanges(d, pos) ==
  LET targetName == renameTargetName(d, pos)
  IN IF targetName = <<>> THEN <<>>
     ELSE IF targetName \in AT_CONTROL_WORDS \cup BUILTIN_FUNCTIONS \cup WRITER_KEYWORDS THEN <<>>
     ELSE collectRenameRanges(d, targetName)

\* a line after workspaceEdit.replace of the ranges that start in starts,
\* each length characters long, from column c on
RECURSIVE replaceInLine(_, _, _, _, _)
replaceInLine(text, starts, length, newName, c) ==
  IF c >= Len(text) THEN <<>>
  ELSE IF c \in starts
       THEN newName \o replaceInLine(text, starts, length, newName, c + length)
       ELSE <<text[c + 1]>> \o replaceInLine(text, starts, length, newName, c + 1)

\* the document after the edit is applied
applyRenameEdit(d, ranges, length, newName) ==
  [k \in DOMAIN d |->
     replaceInLine(d[k], {ranges[r].start : r \in {x \in DOMAIN ranges : ranges[x].line = k - 1}},
                   length, newName, 0)]

(***************************************************************************)
(* SpecRename: Rename Symbol invoked at a position of a document           *)
(***************************************************************************)
MaxRenameLines == 2

LnCallF == <<"@", "F", "(", "a", ")">>
LnCallG == <<"x", " ", "@", "G", "@", "(", "a", ")">>
LnCommentCallG == <<"#", " ", "@", "G", "(", "a", ")">>

RenameCatalog == {LnFunctionF, LnFunctionGp, LnCallF, LnCallG, LnCommentCallG}

RenameDocs == UNION {[1..n -> RenameCatalog] : n \in 0..MaxRenameLines}

NewNames == {<<"H">>, <<"Y", "Z">>}

InitRename ==
  /\ doc \in RenameDocs
  /\ pc = "idle"
  /\ arg = <<>>
  /\ result = <<>>
  /\ line = 0
  /\ lineToFunc = <<>>
  /\ globalDeclared = {}
  /\ localDeclaredByFunc = EmptyMap
  /\ diagnostics = <<>>
  /\ varDiag = <<>>
  /\ diag = <<>>
  /\ tokens = <<>>
  /\ scan = NoScan
  /\ userFunctions = {}
  /\ documents = NoEntries
  /\ diagCollection = NoEntries
  /\ varDiagCollection = NoEntries

\* provideRenameEdits(doc, pos, newName), and the editor applying the edit
provideRenameEdits ==
  /\ pc = "idle"
  /\ \E L \in LinesOf(doc) : \E c \in 0..Len(doc[L + 1]) : \E newName \in NewNames :
        LET pos == [line |-> L, character |-> c]
            targetName == renameTargetName(doc, pos)
            ranges == renameEditRanges(doc, pos)
        IN /\ arg' = [doc |-> doc, targetName |-> targetName, newName |-> newName]
           /\ result' = ranges
           /\ doc' = applyRenameEdit(doc, ranges, Len(targetName), newName)
  /\ pc' = "renamed"
  /\ UNCHANGED <<line, lineToFunc, globalDeclared, localDeclaredByFunc,
                 diagnostics, varDiag, diag, tokens, scan, userFunctions,
                 documents, diagCollection, varDiagCollection>>

NextRename == provideRenameEdits

SpecRename == InitRename /\ [][NextRename]_vars

(***************************************************************************)
(* Properties of Rename Symbol (SpecRename)                                *)
(***************************************************************************)
\* the column of the name that follows '@Function' on a declaration line of
\* name; -1 on any other line
DeclaredNameColumn(text, name) ==
  LET j == SkipWs(text, 0)
      k == SkipWs(text, j + Len(KwFunction))
  IN IF /\ StartsWithCI(text, KwFunction, j)
        /\ k > j + Len(KwFunction)
        /\ Slice(text, k, IdentEnd(text, k)) = name
     THEN k ELSE -1

\* column c holds the name of a call '@Name(' or '@Name@('
CallNameAt(text, name, c) == renameCallRe(text, name, c - 1) # -1

\* the columns of a line where the function's name stands, as the name of
\* its declaration or of a call
NameSites(text, name) ==
  {c \in 0..Len(text) :
     \/ c = DeclaredNameColumn(text, name)
     \/ ~isBlank(text) /\ ~isCommentLine(text) /\ CallNameAt(text, name, c)}

\* C29: every range collectRenameRanges returns for a user-defined function
\* covers exactly the name after '@Function' on its declaration line or the
\* name after '@' at a call '@Name(' / '@Name@(', and the edit of
\* provideRenameEdits rewrites those names and nothing else.
C29_RenameRangesCoverTheName ==
  (pc = "renamed" /\ result # <<>>) =>
    LET name == arg.targetName
    IN /\ \A r \in DOMAIN result :
             LET text == arg.doc[result[r].line + 1]
             IN /\ result[r].end = result[r].start + Len(name)
                /\ result[r].start \in NameSites(text, name)
       /\ \A k \in DOMAIN doc :
             doc[k] = replaceInLine(arg.doc[k], NameSites(arg.doc[k], name),
                                    Len(name), arg.newName, 0)

(***************************************************************************)
(* Formatter: normalizeThenSpacing and                                     *)
(* formatterProvider.provideDocumentFormattingEdits                        *)
(***************************************************************************)
\* the index of the first '@Then' outside single quotes at or after i; -1
\* when the loop of normalizeThenSpacing ends without one
RECURSIVE firstThenOutsideQuotes(_, _, _)
firstThenOutsideQuotes(content, i, inQ) ==
  IF i >= Len(content) THEN -1
  ELSE IF content[i + 1] = "'"
       THEN IF CharAt(content, i + 1) = "'"
            THEN firstThenOutsideQuotes(content, i + 2, inQ)
            ELSE firstThenOutsideQuotes(content, i + 1, ~inQ)
       ELSE IF inQ THEN firstThenOutsideQuotes(content, i + 1, inQ)
       ELSE IF StartsWithCI(content, KwThen, i) /\ ~isIdentChar(CharAt(content, i + Len(KwThen)))
            THEN i
            ELSE firstThenOutsideQuotes(content, i + 1, inQ)

normalizeThenSpacing(content) ==
  LET i == firstThenOutsideQuotes(content, 0, FALSE)
      before == TrimRight(Slice(content, 0, i))
  IN IF ~hasThenSameLine(content) \/ i = -1 THEN content
     ELSE before \o <<" ">> \o Slice(content, i, Len(content))

\* /^@(End\s+(If|For|Function)|Else(\s+If)?\b)/i.test(trimmed)
outdentsFirst(raw) ==
  LET j == SkipWs(raw, 0)
      k == SkipWs(raw, j + Len(KwEnd))
  IN \/ /\ StartsWithCI(raw, KwEnd, j)
        /\ k > j + Len(KwEnd)
        /\ \E word \in {WordIf, WordFor, WordFunction} : StartsWithCI(raw, word, k)
     \/ LineStartsWithKw(raw, KwElse)
     \/ LineStartsWithKw2(raw, KwElse, WordIf)

\* /^@(If\b.*@Then\b|Else\s+If\b.*@Then\b|Else\b|For\b|Function\b)/i.test(trimmed)
indentsNext(raw) ==
  \/ LineStartsWithKw(raw, KwIf) /\ hasThenSameLine(raw)
  \/ LineStartsWithKw2(raw, KwElse, WordIf) /\ hasThenSameLine(raw)
  \/ LineStartsWithKw(raw, KwElse)
  \/ LineStartsWithKw(raw, KwFor)
  \/ LineStartsWithKw(raw, KwFunction)

\* '\t'.repeat(indentLevel)
tabs(n) == [k \in 1..n |-> "\t"]

\* one iteration of the line loop of provideDocumentFormattingEdits
formatLineStep(raw, ln, indentLevel, edits) ==
  LET level == IF outdentsFirst(raw) /\ indentLevel > 0 THEN indentLevel - 1
               ELSE IF outdentsFirst(raw) THEN 0 ELSE indentLevel
      content == Slice(raw, SkipWs(raw, 0), Len(raw))
      normalizedContent ==
        IF LineStartsWithKw(raw, KwIf) \/ LineStartsWithKw2(raw, KwElse, WordIf)
        THEN normalizeThenSpacing(content) ELSE content
      desiredLine == tabs(level) \o normalizedContent
  IN IF isBlank(raw) \/ isCommentLine(raw)
     THEN [indentLevel |-> indentLevel, edits |-> edits]
     ELSE [indentLevel |-> IF indentsNext(raw) THEN level + 1 ELSE level,
           edits |-> IF desiredLine # raw
                     THEN Append(edits, [line |-> ln, newText |-> desiredLine])
                     ELSE edits]

\* the document after the editor has applied the TextEdits
applyFormattingEdits(d, edits) ==
  [k \in DOMAIN d |->
     IF \E e \in DOMAIN edits : edits[e].line = k - 1
     THEN edits[CHOOSE e \in DOMAIN edits : edits[e].line = k - 1].newText
     ELSE d[k]]

(***************************************************************************)
(* SpecFormat: Format Document run over a document, one line a step        *)
(***************************************************************************)
MaxFormatLines == 4

LnIndented == <<" ", "s">>

FormatCatalog == {LnIfA, KwThen, LnIfThen, KwElse, LnEndIf, KwFor, LnEndFor,
                  LnStatement, LnIndented}

FormatDocs == UNION {[1..n -> FormatCatalog] : n \in 0..MaxFormatLines}

InitFormat ==
  /\ doc \in FormatDocs
  /\ pc = "formatLoop"
  /\ line = 0
  /\ arg = <<>>
  /\ result = [indentLevel |-> 0, edits |-> <<>>]
  /\ lineToFunc = <<>>
  /\ globalDeclared = {}
  /\ localDeclaredByFunc = EmptyMap
  /\ diagnostics = <<>>
  /\ varDiag = <<>>
  /\ diag = <<>>
  /\ tokens = <<>>
  /\ scan = NoScan
  /\ userFunctions = {}
  /\ documents = NoEntries
  /\ diagCollection = NoEntries
  /\ varDiagCollection = NoEntries

\* body of "for (let line = 0; line < doc.lineCount; line++)"
FormatLine ==
  /\ pc = "formatLoop"
  /\ line < Len(doc)
  /\ result' = formatLineStep(doc[line + 1], line, result.indentLevel, result.edits)
  /\ line' = line + 1
  /\ UNCHANGED <<doc, pc, lineToFunc, globalDeclared, localDeclaredByFunc,
                 diagnostics, varDiag, diag, tokens, scan, userFunctions,
                 documents, diagCollection, varDiagCollection, arg>>

\* "return edits", and the editor applying them to the document
FormatReturn ==
  /\ pc = "formatLoop"
  /\ line = Len(doc)
  /\ arg' = doc
  /\ doc' = applyFormattingEdits(doc, result.edits)
  /\ pc' = "formatted"
  /\ UNCHANGED <<line, lineToFunc, globalDeclared, localDeclaredByFunc,
                 diagnostics, varDiag, diag, tokens, scan, userFunctions,
                 documents, diagCollection, varDiagCollection, result>>

NextFormat == FormatLine \/ FormatReturn

SpecFormat == InitFormat /\ [][NextFormat]_vars

(***************************************************************************)
(* Properties of the formatter (SpecFormat)                                *)
(***************************************************************************)
IsAnyStart(text) == \E kind \in BlockKinds : IsStartMarker(kind, text)
IsAnyEnd(text) == \E kind \in BlockKinds : IsEndMarker(kind, text)
IsElseLine(text) == ~isCommentLine(text) /\ LineStartsWithKw(text, KwElse)

\* the number of blocks open around line L: those started and not ended on
\* the lines before it; an '@End ...', '@Else' or '@Else If' line belongs to
\* the level of its own block
BlocksOpenAround(d, L) ==
  Cardinality({k \in 0..(L - 1) : IsAnyStart(d[k + 1])})
  - Cardinality({k \in 0..(L - 1) : IsAnyEnd(d[k + 1])})
  - (IF IsAnyEnd(d[L + 1]) \/ IsElseLine(d[L + 1]) THEN 1 ELSE 0)

\* a line that only carries the '@Then' of the @If line before it
IsThenContinuation(text) == LineStartsWithKw(text, KwThen)

\* the line starts with exactly n tabs and no other blank
IndentedBy(text, n) == SkipWs(text, 0) = n /\ \A k \in 1..n : text[k] = "\t"

\* every '@Else' / '@Else If' line stands inside an open @If block
ElseLinesInsideIf(d) ==
  LET hs == Heights(d, "If", Len(d))
  IN \A L \in LinesOf(d) : IsElseLine(d[L + 1]) => hs[L + 1] > 0

\* C30: when the block and @Then validators report nothing for a document
\* (and no '@Else' stands outside an @If block), the formatter leaves each non-blank, non-comment line indented by as many
\* tabs as blocks are open around it ('@Else', '@Else If' and '@End ...' lines
\* at their own block's level), its running level never goes below 0, and
\* the level is 0 after the last line.
C30_IndentMatchesOpenBlocks ==
  /\ pc \in {"formatLoop", "formatted"} => result.indentLevel >= 0
  /\ (pc = "formatted" /\ provideIfDiagnostics(arg) = <<>> /\ ElseLinesInsideIf(arg)) =>
        /\ result.indentLevel = 0
        /\ \A L \in LinesOf(arg) :
              (~isBlank(arg[L + 1]) /\ ~isCommentLine(arg[L + 1])
                 /\ ~IsThenContinuation(arg[L + 1]))
                => IndentedBy(doc[L + 1], BlocksOpenAround(arg, L))

====
